---------------------------- MODULE Spec2Model ----------------------------
(***************************************************************************)
(* The MCP tool-calling orchestration of tabtabtab-oss:                    *)
(*   Server, Tool, MCPToolProvider  (extensions/mcp_extension_lib.py)      *)
(*   _process_in_background         (notion / calendar MCP extensions)     *)
(*                                                                         *)
(* The specifications share the definitions of the library:                *)
(*   Spec     one background task of an extension, from its start to the   *)
(*            terminal notification, against an environment that chooses   *)
(*            the outcome of every external call;                          *)
(*   LiveSpec      Spec with the event loop running the task whenever it   *)
(*                 can take a step;                                        *)
(*   ServerSpec    a client calling the methods of one Server in any order;*)
(*   ProviderSpec  a client calling initialize and cleanup of one          *)
(*                 MCPToolProvider in any order;                           *)
(*   ToolSpec      a client that initializes one MCPToolProvider and calls *)
(*                 execute_tool on it;                                     *)
(*   CatalogSpec   a client listing and executing tools on one             *)
(*                 MCPToolProvider around initialize and cleanup;          *)
(*   ConcSpec      two callers whose initialize and cleanup calls on one   *)
(*                 MCPToolProvider interleave at the awaits;               *)
(*   TasksSpec     the event handlers and the background tasks of two      *)
(*                 requests on the host's event loop;                      *)
(*   SchemaSpec    Tool.from_function applied to one annotated function.   *)
(***************************************************************************)
EXTENDS Integers, Sequences, FiniteSets, TLC

\* ------------------------------------------------------------------ bounds

MaxServers == 2
MaxCleanups == 2
MaxRetries == 3
MaxFails == 3
MaxRounds == 2
MaxParams == 2

\* default of the retries parameter of Server.execute_tool
DefaultRetries == 2

\* ------------------------------------------------------------- sequences

Range(s) == {s[i] : i \in 1..Len(s)}

\* a filter that drops nothing
SelectNamesKeepAll(ds, deny) == ds

RECURSIVE SelectNames(_, _)
\* the subsequence of the descriptors whose name is not in deny
SelectNames(ds, deny) ==
    IF ds = <<>> THEN <<>>
    ELSE IF Head(ds).name \in deny THEN SelectNames(Tail(ds), deny)
         ELSE <<Head(ds)>> \o SelectNames(Tail(ds), deny)

\* ---------------------------------------------------------------- Server

\* A context-manager field of a Server: "None" (the field is None), or the
\* state of the object it holds: "failed" (its __aenter__ raised), "open"
\* (entered), "closed" (its __aexit__ has been called).
CtxStates == {"None", "failed", "open", "closed"}

ServerIds == 1..MaxServers

\* Server.__init__; init_result, cleanups, cleanup_raised, session_exits and
\* stream_exits record what was called on the object and how it ended, they
\* are not fields of it.
NewServer ==
    [ streams_context |-> "None",
      session_context |-> "None",
      session         |-> FALSE,
      init_result     |-> "never",
      cleanups        |-> 0,
      cleanup_raised  |-> FALSE,
      session_exits   |-> 0,
      stream_exits    |-> 0 ]

InitOutcomes == {"ok", "fail_stream", "fail_session", "fail_handshake"}

\* Server.initialize against an environment that fails the given stage.
\* The fields are assigned as the stages go; nothing is undone on failure.
Server_initialize(s, outcome) ==
    LET s1 == [s EXCEPT !.streams_context =
                          IF outcome = "fail_stream" THEN "failed" ELSE "open"]
        s2 == [s1 EXCEPT !.session_context =
                          IF outcome = "fail_session" THEN "failed" ELSE "open"]
        s3 == [s2 EXCEPT !.session = TRUE]
    IN  CASE outcome = "fail_stream" ->
               [server |-> [s1 EXCEPT !.init_result = "failed"], raised |-> "TransportError"]
          [] outcome = "fail_session" ->
               [server |-> [s2 EXCEPT !.init_result = "failed"], raised |-> "TransportError"]
          [] outcome = "fail_handshake" ->
               [server |-> [s3 EXCEPT !.init_result = "failed"], raised |-> "TransportError"]
          [] OTHER ->
               [server |-> [s3 EXCEPT !.init_result = "ok"], raised |-> "none"]

\* __aexit__ of a context object
CtxExit(c) == IF c = "open" THEN "closed" ELSE c

\* what the two __aexit__ calls of one Server.cleanup do: each returns or raises
CloseOutcomes == [session_ok : BOOLEAN, stream_ok : BOOLEAN]

\* Server.cleanup: the session context, then the streams context, each only
\* when its field is set; an exception of the first ends the method.
Server_cleanup(s, co) ==
    LET s0 == [s EXCEPT !.cleanups = @ + 1]
        doSession == s.session_context # "None"
        s1 == IF doSession
              THEN [s0 EXCEPT !.session_context = CtxExit(@), !.session_exits = @ + 1]
              ELSE s0
        doStream == s.streams_context # "None"
        s2 == IF doStream
              THEN [s1 EXCEPT !.streams_context = CtxExit(@), !.stream_exits = @ + 1]
              ELSE s1
    IN  IF doSession /\ ~co.session_ok
        THEN [server |-> [s1 EXCEPT !.cleanup_raised = TRUE], raised |-> "TransportError"]
        ELSE IF doStream /\ ~co.stream_ok
             THEN [server |-> [s2 EXCEPT !.cleanup_raised = TRUE], raised |-> "TransportError"]
             ELSE [server |-> s2, raised |-> "none"]

\* Tool.__init__: the name and whether a local implementation is attached
Tool(name, local) == [name |-> name, local_tool |-> local]

\* Tool.to_dict: the descriptor handed to the LLM (no local implementation)
to_dict(t) == [name |-> t.name]

RECURSIVE RemoteTools(_)
\* the Tool values Server.list_tools builds from the remote catalog
RemoteTools(names) ==
    IF names = <<>> THEN <<>>
    ELSE <<Tool(Head(names), FALSE)>> \o RemoteTools(Tail(names))

\* Server.list_tools: rejected without a session, else one remote call that
\* returns the catalog or raises.
Server_list_tools(s, catalog, remoteOk) ==
    IF ~s.session
    THEN [raised |-> "RuntimeError", remote_calls |-> 0, tools |-> <<>>]
    ELSE IF ~remoteOk
         THEN [raised |-> "TransportError", remote_calls |-> 1, tools |-> <<>>]
         ELSE [raised |-> "none", remote_calls |-> 1, tools |-> RemoteTools(catalog)]

RECURSIVE RetryLoopOneMore(_, _, _, _)
\* RetryLoop with the bound of the loop off by one (attempt <= retries)
RetryLoopOneMore(attempt, retries, fails, calls) ==
    IF attempt <= retries
    THEN IF fails = 0
         THEN [raised |-> "none", remote_calls |-> calls + 1, returned |-> "result"]
         ELSE IF attempt + 1 <= retries
              THEN RetryLoopOneMore(attempt + 1, retries, fails - 1, calls + 1)
              ELSE [raised |-> "TransportError", remote_calls |-> calls + 1, returned |-> "nothing"]
    ELSE [raised |-> "none", remote_calls |-> calls, returned |-> "None"]

RECURSIVE RetryLoop(_, _, _, _)
\* the while loop of Server.execute_tool: attempt is the loop variable, calls
\* the number of remote calls made so far, fails the number of calls the
\* remote side still fails.
RetryLoop(attempt, retries, fails, calls) ==
    IF attempt < retries
    THEN IF fails = 0
         THEN [raised |-> "none", remote_calls |-> calls + 1, returned |-> "result"]
         ELSE IF attempt + 1 < retries
              THEN RetryLoop(attempt + 1, retries, fails - 1, calls + 1)
              ELSE [raised |-> "TransportError", remote_calls |-> calls + 1, returned |-> "nothing"]
    ELSE [raised |-> "none", remote_calls |-> calls, returned |-> "None"]

\* Server.execute_tool(tool_name, arguments, retries): rejected without a
\* session, else the retry loop against a remote side failing its first
\* `fails` calls.
Server_execute_tool(s, retries, fails) ==
    IF ~s.session
    THEN [raised |-> "RuntimeError", remote_calls |-> 0, returned |-> "nothing"]
    ELSE RetryLoop(0, retries, fails, 0)


\* ------------------------------------------------------- MCPToolProvider

\* MCPToolProvider.__init__
NewProvider == [servers |-> <<>>, initialized |-> FALSE, additional_tools |-> <<>>]

\* the loop of MCPToolProvider.cleanup that calls cleanup on no Server
CleanupServersNone(ids, heap, co) == heap

RECURSIVE CleanupServers(_, _, _)
\* the loop of MCPToolProvider.cleanup over self.servers: an exception of a
\* Server.cleanup is logged and the loop goes on. (initialize registers one
\* Server, so one outcome of the environment serves every pass.)
CleanupServers(ids, heap, co) ==
    IF ids = <<>> THEN heap
    ELSE CleanupServers(Tail(ids),
                        [heap EXCEPT ![Head(ids)] = Server_cleanup(@, co).server],
                        co)

\* MCPToolProvider.cleanup that cleans the Servers up and forgets the reset
MCPToolProvider_cleanup_NoReset(p, heap, co) ==
    [ prov |-> p,
      heap |-> CleanupServers(p.servers, heap, co),
      raised |-> "none" ]

\* MCPToolProvider.cleanup: every registered Server, then the reset.
MCPToolProvider_cleanup(p, heap, co) ==
    [ prov |-> [p EXCEPT !.servers = <<>>, !.initialized = FALSE],
      heap |-> CleanupServers(p.servers, heap, co),
      raised |-> "none" ]

\* initialize looking at mcp_url only after the Server was made and connected
MCPToolProvider_initialize_LateCheck(p, heap, mcp_url, additional_tools, outcome, co) ==
    LET r   == Server_initialize(NewServer, outcome)
        h1  == Append(heap, r.server)
        id  == Len(h1)
    IN  IF r.raised # "none" \/ mcp_url = ""
        THEN LET c == MCPToolProvider_cleanup(p, h1, co)
             IN  [prov |-> c.prov, heap |-> c.heap,
                  raised |-> IF r.raised # "none" THEN r.raised ELSE "ValueError",
                  created |-> id]
        ELSE [prov |-> [p EXCEPT !.servers = <<id>>,
                                 !.initialized = TRUE,
                                 !.additional_tools = additional_tools],
              heap |-> h1, raised |-> "none", created |-> id]

\* MCPToolProvider.initialize(mcp_url, additional_tools): the new Server is
\* registered only after its initialize returned; the except branch runs
\* self.cleanup(), which sees the Servers registered before the call.
MCPToolProvider_initialize(p, heap, mcp_url, additional_tools, outcome, co) ==
    IF mcp_url = ""
    THEN LET c == MCPToolProvider_cleanup(p, heap, co)
         IN  [prov |-> c.prov, heap |-> c.heap, raised |-> "ValueError", created |-> 0]
    ELSE LET r   == Server_initialize(NewServer, outcome)
             h1  == Append(heap, r.server)
             id  == Len(h1)
         IN  IF r.raised # "none"
             THEN LET c == MCPToolProvider_cleanup(p, h1, co)
                  IN  [prov |-> c.prov, heap |-> c.heap, raised |-> r.raised, created |-> id]
             ELSE [prov |-> [p EXCEPT !.servers = <<id>>,
                                      !.initialized = TRUE,
                                      !.additional_tools = additional_tools],
                   heap |-> h1, raised |-> "none", created |-> id]

RECURSIVE ListServers(_, _, _, _)
\* the loop of get_all_tools over self.servers: the first list_tools that
\* raises ends it.
ListServers(ids, heap, catalog, listOk) ==
    IF ids = <<>> THEN [raised |-> "none", tools |-> <<>>, remote_calls |-> 0]
    ELSE LET l == Server_list_tools(heap[Head(ids)], catalog, listOk)
         IN  IF l.raised # "none"
             THEN [raised |-> l.raised, tools |-> <<>>, remote_calls |-> l.remote_calls]
             ELSE LET rest == ListServers(Tail(ids), heap, catalog, listOk)
                  IN  [raised |-> rest.raised,
                       tools |-> l.tools \o rest.tools,
                       remote_calls |-> l.remote_calls + rest.remote_calls]

\* get_all_tools putting the local tools before those of the servers
get_all_tools_LocalFirst(p, heap, catalog, listOk) ==
    IF ~p.initialized
    THEN [raised |-> "RuntimeError", tools |-> <<>>, remote_calls |-> 0]
    ELSE LET l == ListServers(p.servers, heap, catalog, listOk)
         IN  IF l.raised # "none" THEN l
             ELSE [l EXCEPT !.tools = p.additional_tools \o @]

\* get_all_tools with no look at the initialized flag
get_all_tools_NoGuard(p, heap, catalog, listOk) ==
    LET l == ListServers(p.servers, heap, catalog, listOk)
    IN  IF l.raised # "none" THEN l
        ELSE [l EXCEPT !.tools = @ \o p.additional_tools]

\* MCPToolProvider.get_all_tools
get_all_tools(p, heap, catalog, listOk) ==
    IF ~p.initialized
    THEN [raised |-> "RuntimeError", tools |-> <<>>, remote_calls |-> 0]
    ELSE LET l == ListServers(p.servers, heap, catalog, listOk)
         IN  IF l.raised # "none" THEN l
             ELSE [l EXCEPT !.tools = @ \o p.additional_tools]

\* MCPToolProvider.get_tools_as_dicts
get_tools_as_dicts(p, heap, catalog, listOk) ==
    IF ~p.initialized
    THEN [raised |-> "RuntimeError", tools |-> <<>>, remote_calls |-> 0]
    ELSE LET l == get_all_tools(p, heap, catalog, listOk)
         IN  [l EXCEPT !.tools = [i \in 1..Len(l.tools) |-> to_dict(l.tools[i])]]

\* What the environment does during one MCPToolProvider.execute_tool: whether
\* the local function returns, whether the Server's list_tools returns, how
\* many remote calls fail first, and the shape of the remote result.
ResultShapes == {"text", "other", "empty", "progress"}

ToolEnvs ==
    {[local_ok |-> FALSE, list_ok |-> TRUE, fails |-> 0, shape |-> "text"],
     [local_ok |-> TRUE, list_ok |-> FALSE, fails |-> 0, shape |-> "text"]}
    \cup {[local_ok |-> TRUE, list_ok |-> TRUE, fails |-> 0, shape |-> sh] : sh \in ResultShapes}
    \cup {[local_ok |-> TRUE, list_ok |-> TRUE, fails |-> f, shape |-> "text"] : f \in 1..MaxFails}

\* the result of a tool execution, as the string or object handed back
ToolResult(kind, name) == [kind |-> kind, tool |-> name]

HasLocal(tools, name) == \E i \in 1..Len(tools) : tools[i].name = name /\ tools[i].local_tool

RECURSIVE ExecuteOnServers_Propagate(_, _, _, _, _)
\* the loop over the servers with no try around Server.execute_tool
ExecuteOnServers_Propagate(ids, heap, catalog, name, env) ==
    IF ids = <<>>
    THEN [raised |-> "none", result |-> ToolResult("not_found", name),
          local_invoked |-> FALSE, list_calls |-> 0, remote_calls |-> 0]
    ELSE LET l == Server_list_tools(heap[Head(ids)], catalog, env.list_ok)
         IN  IF l.raised # "none"
             THEN [raised |-> l.raised, result |-> ToolResult("nothing", name),
                   local_invoked |-> FALSE, list_calls |-> l.remote_calls, remote_calls |-> 0]
             ELSE IF \E i \in 1..Len(l.tools) : l.tools[i].name = name
                  THEN LET x == Server_execute_tool(heap[Head(ids)], DefaultRetries, env.fails)
                       IN  [raised |-> x.raised,
                            result |-> ToolResult(IF x.raised # "none" THEN "nothing"
                                                  ELSE "server_text", name),
                            local_invoked |-> FALSE, list_calls |-> l.remote_calls,
                            remote_calls |-> x.remote_calls]
                  ELSE LET rest == ExecuteOnServers_Propagate(Tail(ids), heap, catalog,
                                                              name, env)
                       IN  [rest EXCEPT !.list_calls = @ + l.remote_calls]

RECURSIVE ExecuteOnServers(_, _, _, _, _)
\* the second loop of MCPToolProvider.execute_tool: list_tools is called
\* outside the try, Server.execute_tool and the unwrapping inside it; the
\* error text carries the exception (the call failing after its retries,
\* content[0] of an empty content, .content of a progress dict).
ExecuteOnServers(ids, heap, catalog, name, env) ==
    IF ids = <<>>
    THEN [raised |-> "none", result |-> ToolResult("not_found", name),
          local_invoked |-> FALSE, list_calls |-> 0, remote_calls |-> 0]
    ELSE LET l == Server_list_tools(heap[Head(ids)], catalog, env.list_ok)
         IN  IF l.raised # "none"
             THEN [raised |-> l.raised, result |-> ToolResult("nothing", name),
                   local_invoked |-> FALSE, list_calls |-> l.remote_calls, remote_calls |-> 0]
             ELSE IF \E i \in 1..Len(l.tools) : l.tools[i].name = name
                  THEN LET x == Server_execute_tool(heap[Head(ids)], DefaultRetries, env.fails)
                           kind == IF x.raised # "none" THEN "server_error: TransportError"
                                   ELSE CASE env.shape = "text" -> "server_text"
                                          [] env.shape = "other" -> "server_raw"
                                          [] env.shape = "empty" -> "server_error: IndexError"
                                          [] OTHER -> "server_error: AttributeError"
                       IN  [raised |-> "none", result |-> ToolResult(kind, name),
                            local_invoked |-> FALSE, list_calls |-> l.remote_calls,
                            remote_calls |-> x.remote_calls]
                  ELSE LET rest == ExecuteOnServers(Tail(ids), heap, catalog, name, env)
                       IN  [rest EXCEPT !.list_calls = @ + l.remote_calls]

\* execute_tool looking at the servers before the local tools
execute_tool_RemoteFirst(p, heap, catalog, name, env) ==
    IF ~p.initialized
    THEN [raised |-> "RuntimeError", result |-> ToolResult("nothing", name),
          local_invoked |-> FALSE, list_calls |-> 0, remote_calls |-> 0]
    ELSE LET r == ExecuteOnServers(p.servers, heap, catalog, name, env)
         IN  IF r.raised = "none" /\ r.result.kind = "not_found"
                /\ HasLocal(p.additional_tools, name)
             THEN [raised |-> "none",
                   result |-> ToolResult(IF env.local_ok THEN "local_result"
                                         ELSE "local_error", name),
                   local_invoked |-> TRUE, list_calls |-> r.list_calls, remote_calls |-> 0]
             ELSE r

\* MCPToolProvider.execute_tool(tool_name, arguments)
execute_tool(p, heap, catalog, name, env) ==
    IF ~p.initialized
    THEN [raised |-> "RuntimeError", result |-> ToolResult("nothing", name),
          local_invoked |-> FALSE, list_calls |-> 0, remote_calls |-> 0]
    ELSE IF HasLocal(p.additional_tools, name)
         THEN [raised |-> "none",
               result |-> ToolResult(IF env.local_ok THEN "local_result" ELSE "local_error", name),
               local_invoked |-> TRUE, list_calls |-> 0, remote_calls |-> 0]
         ELSE ExecuteOnServers(p.servers, heap, catalog, name, env)

\* the part of the environment that execute_tool(name) meets: the local
\* function for a local tool; otherwise the listing of the server, and the
\* remote call when the listing has the name. The rest is left as NoEnv.
NoEnv == [local_ok |-> TRUE, list_ok |-> TRUE, fails |-> 0, shape |-> "text"]

Consulted(p, catalog, name, env) ==
    IF HasLocal(p.additional_tools, name) THEN [NoEnv EXCEPT !.local_ok = env.local_ok]
    ELSE IF p.servers = <<>> THEN NoEnv
    ELSE IF ~env.list_ok THEN [NoEnv EXCEPT !.list_ok = FALSE]
    ELSE IF name \notin Range(catalog) THEN NoEnv
    ELSE [NoEnv EXCEPT !.fails = IF env.fails > DefaultRetries THEN DefaultRetries
                                  ELSE env.fails,
                       !.shape = env.shape]

\* anthropic.types.TextBlock / ToolUseBlock, as one record shape
TextBlock(text) == [type |-> "text", text |-> text, id |-> "", name |-> ""]
ToolUseBlock(id, name) == [type |-> "tool_use", text |-> "", id |-> id, name |-> name]

RECURSIVE ToolCalls(_)
\* the (id, name) pairs of the tool-use blocks of a response, in order
ToolCalls(contents) ==
    IF contents = <<>> THEN <<>>
    ELSE IF Head(contents).type = "tool_use"
         THEN <<[id |-> Head(contents).id, name |-> Head(contents).name]>>
              \o ToolCalls(Tail(contents))
         ELSE ToolCalls(Tail(contents))

\* a loop that ends after the first call
ExecuteCallsFirstOnly(calls, envs, p, heap, catalog) ==
    IF calls = <<>> THEN [raised |-> "none", results |-> <<>>, executed |-> <<>>]
    ELSE LET x == execute_tool(p, heap, catalog, Head(calls).name, Head(envs))
         IN  [raised |-> x.raised,
              results |-> IF x.raised # "none" THEN <<>>
                          ELSE <<[type |-> "tool_result", tool_use_id |-> Head(calls).id,
                                  content |-> x.result]>>,
              executed |-> <<Head(calls).name>>]

RECURSIVE ExecuteCalls(_, _, _, _, _)
\* the second loop of execute_all_tools: envs[i] is the environment of the
\* i-th call; an exception of execute_tool ends the loop.
ExecuteCalls(calls, envs, p, heap, catalog) ==
    IF calls = <<>> THEN [raised |-> "none", results |-> <<>>, executed |-> <<>>]
    ELSE LET x == execute_tool(p, heap, catalog, Head(calls).name, Head(envs))
         IN  IF x.raised # "none"
             THEN [raised |-> x.raised, results |-> <<>>, executed |-> <<Head(calls).name>>]
             ELSE LET rest == ExecuteCalls(Tail(calls), Tail(envs), p, heap, catalog)
                  IN  [raised |-> rest.raised,
                       results |-> IF rest.raised # "none" THEN <<>>
                                   ELSE <<[type |-> "tool_result",
                                           tool_use_id |-> Head(calls).id,
                                           content |-> x.result]>> \o rest.results,
                       executed |-> <<Head(calls).name>> \o rest.executed]

\* an execute_all_tools that hands the results back last first
execute_all_tools_Reversed(p, heap, catalog, contents, envs) ==
    IF ~p.initialized
    THEN [raised |-> "RuntimeError", results |-> <<>>, executed |-> <<>>]
    ELSE LET r == ExecuteCalls(ToolCalls(contents), envs, p, heap, catalog)
         IN  [r EXCEPT !.results = [i \in 1..Len(r.results) |->
                                       r.results[Len(r.results) + 1 - i]]]

\* MCPToolProvider.execute_all_tools(contents)
execute_all_tools(p, heap, catalog, contents, envs) ==
    IF ~p.initialized
    THEN [raised |-> "RuntimeError", results |-> <<>>, executed |-> <<>>]
    ELSE ExecuteCalls(ToolCalls(contents), envs, p, heap, catalog)


\* ------------------------------------------------------------------ state

VARIABLES
    prov,       \* the MCPToolProvider of the task (or of the client)
    heap,       \* the Server objects created so far, by identity
    catalog,    \* the tool names the remote MCP server lists
    registered, \* the Servers that have been in prov.servers
    last,       \* the last library call: what was called and how it ended
    ext,        \* the extension running the background task
    mode,       \* "copy" or "paste"
    deps,       \* the dependencies of the request
    pc,         \* the position of the background task
    exc,        \* the exception leaving the async-with body, or "none"
    tools_dict, \* the descriptor list passed to the LLM
    messages,   \* the conversation history
    contents,   \* response.content of the last LLM call
    tool_calls, \* Calendar: bool(tool_results) of the last round
    final_notification,
    notifs,     \* the calls of send_push_notification, in order
    llm_calls,  \* the number of client.messages.create calls
    tool_rounds,\* the number of responses that held a tool-use block
    callers,    \* the calls in progress on one shared MCPToolProvider
    tasks,      \* the background tasks of the requests, by request id
    objs,       \* the MCPToolProvider objects the tasks created, by identity
    acks,       \* what the event handler returned for each request
    out,        \* the terminal notifications sent, in order
    blocked,    \* the task whose synchronous call holds the event loop
    func,       \* the function given to Tool.from_function
    made        \* what Tool.from_function did with it

libvars == <<prov, heap, catalog, registered, last>>
taskvars == <<ext, mode, deps, pc, exc, tools_dict, messages, contents, tool_calls,
              final_notification, notifs, llm_calls, tool_rounds>>
concvars == <<callers, tasks, objs, acks, out, blocked>>
toolvars == <<func, made>>
vars == <<prov, heap, catalog, registered, last, ext, mode, deps, pc, exc, tools_dict,
          messages, contents, tool_calls, final_notification, notifs, llm_calls,
          tool_rounds, callers, tasks, objs, acks, out, blocked, func, made>>

\* the record kept of a library call: the method, the call before it, the
\* Server it was about, the exception it raised, the remote calls and
\* __aexit__ calls it made, and for execute_tool its arguments and result.
\* For the methods of the provider also: arg, the mcp_url or the tool name;
\* env, what the environment did for each tool call; whether a local tool
\* ran; the list_tools calls made; the LLM calls made before it; the
\* sequence handed back (tools, descriptors or tool results); and the names
\* of the tools that execute_all_tools went through.
Call(op, server, raised, remote_calls, closes, retries, fails, returned) ==
    [ op |-> op, prev |-> last.op, server |-> server, raised |-> raised,
      remote_calls |-> remote_calls, closes |-> closes, retries |-> retries,
      fails |-> fails, returned |-> returned,
      arg |-> "", env |-> <<>>, local_invoked |-> FALSE, list_calls |-> 0, round |-> 0,
      tools |-> <<>>, executed |-> <<>> ]

NoCall ==
    [ op |-> "none", prev |-> "none", server |-> 0, raised |-> "none", remote_calls |-> 0,
      closes |-> 0, retries |-> 0, fails |-> 0, returned |-> "nothing",
      arg |-> "", env |-> <<>>, local_invoked |-> FALSE, list_calls |-> 0, round |-> 0,
      tools |-> <<>>, executed |-> <<>> ]

\* the __aexit__ calls made on Server s so far
Exits(s) == s.session_exits + s.stream_exits

\* ------------------------------------------- the library called by a client

\* what the remote MCP server of an extension may list
CatalogsOf(e) ==
    IF e = "notion"
    THEN { <<"query-database", "search">> }
    ELSE { <<"create_event", "list_events">>, <<"get_current_time", "update_event">> }

Catalogs == CatalogsOf("notion") \cup CatalogsOf("calendar")

LocalToolSets == { <<>>, <<Tool("get_current_time", TRUE)>> }

\* the callers of a shared provider, and the requests of the host
Callers == {"a", "b"}
Requests == {"r1", "r2"}

\* a caller that is not in a call
NoCaller == [op |-> "none", at |-> "idle", server |-> 0, todo |-> <<>>, raised |-> "none"]

\* a request with no task. Of a task: pc, the await it is suspended in; tp,
\* its tool_provider; messages, its history; status, of its
\* final_notification; rounds, the responses with tool-use blocks so far;
\* calls, the tool calls of the round that have not returned; running, the
\* tool executions in progress; llm, the LLM calls in progress
NoTask ==
    [pc |-> "none", tp |-> 0, messages |-> <<>>, status |-> "none", rounds |-> 0,
     calls |-> 0, running |-> 0, llm |-> 0]

\* Tool.from_function is not in use
ToolIdle == func = <<>> /\ made = <<>>

\* no caller shares the provider, and the host has no request
ConcIdle ==
    /\ callers = <<>>
    /\ tasks = <<>>
    /\ objs = <<>>
    /\ acks = <<>>
    /\ out = <<>>
    /\ blocked = "none"
    /\ ToolIdle

\* the task is not running while a client calls the library
TaskQuiet ==
    /\ ext = "none" /\ mode = "copy" /\ deps = [mcp_url |-> "set", anthropic_api_key |-> "set"]
    /\ pc = "idle" /\ exc = "none"
    /\ tools_dict = <<>> /\ messages = <<>> /\ contents = <<>> /\ tool_calls = FALSE
    /\ final_notification = [title |-> "", detail |-> "", content |-> <<>>, status |-> "None"]
    /\ notifs = <<>>
    /\ llm_calls = 0 /\ tool_rounds = 0

TaskIdle == TaskQuiet /\ ConcIdle

\* a client holding one Server: Server(name, mcp_url)
ServerInit ==
    /\ prov = NewProvider
    /\ heap = <<NewServer>>
    /\ catalog \in Catalogs
    /\ registered = {}
    /\ last = NoCall
    /\ TaskIdle

\* a client holding one MCPToolProvider: MCPToolProvider()
ProviderInit ==
    /\ prov = NewProvider
    /\ heap = <<>>
    /\ catalog \in Catalogs
    /\ registered = {}
    /\ last = NoCall
    /\ TaskIdle

\* await server.initialize()
L_Server_initialize ==
    \E i \in 1..Len(heap), outcome \in InitOutcomes :
        /\ heap[i].init_result = "never"
        /\ LET r == Server_initialize(heap[i], outcome)
           IN  /\ heap' = [heap EXCEPT ![i] = r.server]
               /\ last' = Call("Server.initialize", i, r.raised, 0, 0, 0, 0, "nothing")
        /\ UNCHANGED <<prov, catalog, registered>>
        /\ UNCHANGED <<taskvars, concvars, toolvars>>

\* await server.cleanup()
L_Server_cleanup ==
    \E i \in 1..Len(heap), co \in CloseOutcomes :
        /\ heap[i].cleanups < MaxCleanups
        /\ LET r == Server_cleanup(heap[i], co)
           IN  /\ heap' = [heap EXCEPT ![i] = r.server]
               /\ last' = Call("Server.cleanup", i, r.raised, 0,
                               Exits(r.server) - Exits(heap[i]), 0, 0, "nothing")
        /\ UNCHANGED <<prov, catalog, registered>>
        /\ UNCHANGED <<taskvars, concvars, toolvars>>

\* await server.list_tools()
L_Server_list_tools ==
    \E i \in 1..Len(heap), ok \in BOOLEAN :
        /\ LET r == Server_list_tools(heap[i], catalog, ok)
           IN  last' = Call("Server.list_tools", i, r.raised, r.remote_calls, 0, 0, 0,
                            IF r.raised = "none" THEN "result" ELSE "nothing")
        /\ UNCHANGED <<prov, heap, catalog, registered>>
        /\ UNCHANGED <<taskvars, concvars, toolvars>>

\* await server.execute_tool(tool_name, arguments, retries)
L_Server_execute_tool ==
    \E i \in 1..Len(heap), r \in 0..MaxRetries, k \in 0..MaxFails :
        /\ LET x == Server_execute_tool(heap[i], r, k)
           IN  last' = Call("Server.execute_tool", i, x.raised, x.remote_calls, 0, r, k,
                            x.returned)
        /\ UNCHANGED <<prov, heap, catalog, registered>>
        /\ UNCHANGED <<taskvars, concvars, toolvars>>

\* every registered Server can still be cleaned up within the bound
CleanupInBound == \A j \in Range(prov.servers) : heap[j].cleanups < MaxCleanups

\* the __aexit__ calls made on the Servers of h1 since h0
ExitsSince(h0, h1) ==
    LET n == Len(h0)
        d[i \in 0..n] == IF i = 0 THEN 0 ELSE d[i - 1] + Exits(h1[i]) - Exits(h0[i])
    IN  d[n]

\* await tool_provider.initialize(mcp_url, additional_tools)
L_Provider_initialize ==
    \E url \in {"", "url"}, tools \in LocalToolSets, outcome \in InitOutcomes,
       co \in CloseOutcomes :
        /\ url # "" => Len(heap) < MaxServers
        /\ CleanupInBound
        /\ LET r == MCPToolProvider_initialize(prov, heap, url, tools, outcome, co)
           IN  /\ prov' = r.prov
               /\ heap' = r.heap
               /\ registered' = registered \cup Range(r.prov.servers)
               /\ last' = [Call("MCPToolProvider.initialize", r.created, r.raised, 0,
                                ExitsSince(heap, r.heap), 0, 0, "nothing")
                           EXCEPT !.arg = url]
        /\ UNCHANGED catalog
        /\ UNCHANGED <<taskvars, concvars, toolvars>>

\* await tool_provider.cleanup()
L_Provider_cleanup ==
    \E co \in CloseOutcomes :
        /\ CleanupInBound
        /\ LET r == MCPToolProvider_cleanup(prov, heap, co)
           IN  /\ prov' = r.prov
               /\ heap' = r.heap
               /\ last' = Call("MCPToolProvider.cleanup", 0, r.raised, 0,
                               ExitsSince(heap, r.heap), 0, 0, "nothing")
        /\ UNCHANGED <<catalog, registered>>
        /\ UNCHANGED <<taskvars, concvars, toolvars>>

\* the tool names a client asks for: those of the remote catalog, the local
\* tool, and one that nobody has
ToolNames == Range(catalog) \cup {"get_current_time", "unknown_tool"}

\* await tool_provider.execute_tool(name, arguments)
L_Provider_execute_tool ==
    \E name \in ToolNames, env \in ToolEnvs :
        /\ LET x == execute_tool(prov, heap, catalog, name, env)
           IN  last' = [Call("MCPToolProvider.execute_tool", 0, x.raised, x.remote_calls,
                             0, DefaultRetries, env.fails, x.result.kind)
                        EXCEPT !.arg = name,
                               !.env = <<Consulted(prov, catalog, name, env)>>,
                               !.local_invoked = x.local_invoked,
                               !.list_calls = x.list_calls]
        /\ UNCHANGED <<prov, heap, catalog, registered>>
        /\ UNCHANGED <<taskvars, concvars, toolvars>>

\* tools = await tool_provider.get_all_tools()
L_Provider_get_all_tools ==
    \E ok \in BOOLEAN :
        /\ LET l == get_all_tools(prov, heap, catalog, ok)
           IN  last' = [Call("MCPToolProvider.get_all_tools", 0, l.raised, 0, 0, 0, 0,
                             "nothing")
                        EXCEPT !.list_calls = l.remote_calls, !.tools = l.tools,
                               !.env = <<[NoEnv EXCEPT !.list_ok = ok]>>]
        /\ UNCHANGED <<prov, heap, catalog, registered>>
        /\ UNCHANGED <<taskvars, concvars, toolvars>>

\* tools_dict = await tool_provider.get_tools_as_dicts()
L_Provider_get_tools_as_dicts ==
    \E ok \in BOOLEAN :
        /\ LET l == get_tools_as_dicts(prov, heap, catalog, ok)
           IN  last' = [Call("MCPToolProvider.get_tools_as_dicts", 0, l.raised, 0, 0, 0, 0,
                             "nothing")
                        EXCEPT !.list_calls = l.remote_calls, !.tools = l.tools,
                               !.env = <<[NoEnv EXCEPT !.list_ok = ok]>>]
        /\ UNCHANGED <<prov, heap, catalog, registered>>
        /\ UNCHANGED <<taskvars, concvars, toolvars>>

\* the responses a client hands to execute_all_tools: no block, a text, and
\* a text with one tool-use block
ToolContents ==
    { <<>>, <<TextBlock("Done")>> }
    \cup { <<TextBlock("Thinking"), ToolUseBlock("tu1", n)>> : n \in ToolNames }

\* tool_results = await tool_provider.execute_all_tools(contents)
L_Provider_execute_all_tools ==
    \E c \in ToolContents :
      \E envs \in [1..Len(ToolCalls(c)) -> ToolEnvs] :
        /\ contents' = c
        /\ LET r == execute_all_tools(prov, heap, catalog, c, envs)
           IN  last' = [Call("MCPToolProvider.execute_all_tools", 0, r.raised, 0, 0,
                             DefaultRetries, 0, "nothing")
                        EXCEPT !.env = [i \in 1..Len(ToolCalls(c)) |->
                                           Consulted(prov, catalog, ToolCalls(c)[i].name,
                                                     envs[i])],
                               !.tools = r.results, !.executed = r.executed]
        /\ UNCHANGED <<prov, heap, catalog, registered>>
        /\ UNCHANGED <<ext, mode, deps, pc, exc, tools_dict, messages, tool_calls,
                       final_notification, notifs, llm_calls, tool_rounds>>
        /\ UNCHANGED <<concvars, toolvars>>

ServerNext ==
    \/ L_Server_initialize
    \/ L_Server_cleanup
    \/ L_Server_list_tools
    \/ L_Server_execute_tool

ServerSpec == ServerInit /\ [][ServerNext]_vars

ProviderNext ==
    \/ L_Provider_initialize
    \/ L_Provider_cleanup

ProviderSpec == ProviderInit /\ [][ProviderNext]_vars

\* a client that initializes a provider until it is ready and executes tools
L_Tool_initialize == ~prov.initialized /\ L_Provider_initialize

ToolNext ==
    \/ L_Tool_initialize
    \/ L_Provider_execute_tool

ToolSpec == ProviderInit /\ [][ToolNext]_vars

\* a client that initializes one provider once, calls its methods in any
\* order, before and after, and cleans it up
L_Catalog_initialize == heap = <<>> /\ L_Provider_initialize

CatalogNext ==
    \/ L_Catalog_initialize
    \/ L_Provider_cleanup
    \/ L_Provider_get_all_tools
    \/ L_Provider_get_tools_as_dicts
    \/ L_Provider_execute_tool
    \/ L_Provider_execute_all_tools

CatalogSpec == ProviderInit /\ [][CatalogNext]_vars

\* ------------------------------ calls in progress on one shared provider
\* initialize and cleanup of MCPToolProvider, cut at their awaits: a caller
\* is suspended in `await server.initialize()` or in `await server.cleanup()`
\* while the other caller runs. Nothing acquires initialization_lock.

\* self.servers = [server]; self.initialized = True; self.additional_tools = ...
Register(p, id, additional_tools) ==
    [p EXCEPT !.servers = <<id>>, !.initialized = TRUE,
              !.additional_tools = additional_tools]

\* a cleanup that forgets the reset
ResetNothing(p) == p

\* self.servers = []; self.initialized = False
Reset(p) == [p EXCEPT !.servers = <<>>, !.initialized = FALSE]

\* cleanup() up to its first await: the loop takes the list that self.servers
\* holds now; with nothing in it the reset follows at once
EnterCleanup(c, op, raised) ==
    IF prov.servers = <<>>
    THEN /\ prov' = Reset(prov)
         /\ callers' = [callers EXCEPT ![c] = NoCaller]
    ELSE /\ callers' = [callers EXCEPT ![c] =
                           [op |-> op, at |-> "server.cleanup", server |-> callers[c].server,
                            todo |-> prov.servers, raised |-> raised]]
         /\ UNCHANGED prov

\* await tool_provider.initialize(mcp_url) up to its first await: the empty
\* URL raises into the except branch, else the Server is made and connects
C_initialize(c) ==
    /\ callers[c].at = "idle"
    /\ \E url \in {"", "url"} :
          IF url = ""
          THEN /\ EnterCleanup(c, "initialize", "ValueError")
               /\ UNCHANGED heap
          ELSE /\ Len(heap) < MaxServers
               /\ heap' = Append(heap, NewServer)
               /\ callers' = [callers EXCEPT ![c] =
                                 [op |-> "initialize", at |-> "server.initialize",
                                  server |-> Len(heap) + 1, todo |-> <<>>,
                                  raised |-> "none"]]
               /\ UNCHANGED prov
    /\ UNCHANGED <<catalog, registered, last, taskvars, toolvars, tasks, objs, acks, out, blocked>>

\* `await server.initialize()` is over: the Server is registered, or the
\* except branch starts cleanup()
C_server_initialized(c) ==
    /\ callers[c].at = "server.initialize"
    /\ \E outcome \in InitOutcomes :
          LET id == callers[c].server
              r  == Server_initialize(heap[id], outcome)
          IN  /\ heap' = [heap EXCEPT ![id] = r.server]
              /\ IF r.raised = "none"
                 THEN /\ prov' = Register(prov, id, <<>>)
                      /\ registered' = registered \cup {id}
                      /\ callers' = [callers EXCEPT ![c] = NoCaller]
                 ELSE /\ EnterCleanup(c, "initialize", r.raised)
                      /\ UNCHANGED registered
    /\ UNCHANGED <<catalog, last, taskvars, toolvars, tasks, objs, acks, out, blocked>>

\* await tool_provider.cleanup() up to its first await
C_cleanup(c) ==
    /\ callers[c].at = "idle"
    /\ EnterCleanup(c, "cleanup", "none")
    /\ UNCHANGED <<heap, catalog, registered, last, taskvars, toolvars, tasks, objs, acks, out,
                   blocked>>

\* `await server.cleanup()` is over (its exception is logged): the loop goes
\* to the next Server of its list, or the reset ends cleanup()
C_server_cleaned(c) ==
    /\ callers[c].at = "server.cleanup"
    /\ \E co \in CloseOutcomes :
          LET id == Head(callers[c].todo)
          IN  heap' = [heap EXCEPT ![id] = Server_cleanup(@, co).server]
    /\ IF Tail(callers[c].todo) = <<>>
       THEN /\ prov' = Reset(prov)
            /\ callers' = [callers EXCEPT ![c] = NoCaller]
       ELSE /\ callers' = [callers EXCEPT ![c].todo = Tail(@)]
            /\ UNCHANGED prov
    /\ UNCHANGED <<catalog, registered, last, taskvars, toolvars, tasks, objs, acks, out, blocked>>

ConcNext ==
    \E c \in Callers :
        \/ C_initialize(c)
        \/ C_server_initialized(c)
        \/ C_cleanup(c)
        \/ C_server_cleaned(c)

\* one MCPToolProvider() and two callers, none of them in a call
ConcInit ==
    /\ prov = NewProvider
    /\ heap = <<>>
    /\ catalog \in Catalogs
    /\ registered = {}
    /\ last = NoCall
    /\ TaskQuiet
    /\ callers = [c \in Callers |-> NoCaller]
    /\ tasks = <<>> /\ objs = <<>> /\ acks = <<>> /\ out = <<>> /\ blocked = "none"
    /\ ToolIdle

ConcSpec == ConcInit /\ [][ConcNext]_vars


\* ------------------------------------------------- the background task

\* PASTE_DISABLED_TOOLS of the extension's module
PASTE_DISABLED_TOOLS(e) ==
    IF e = "notion"
    THEN {"query-database", "list-databases", "create-page"}
    ELSE {"create_event", "update_event"}

\* the tool names an LLM response may ask for
AskedNames(e) ==
    IF e = "notion"
    THEN {"query-database", "search", "unknown_tool"}
    ELSE {"get_current_time", "create_event", "list_events", "unknown_tool"}

\* response.content of client.messages.create
Responses(e) ==
    { <<>>, <<TextBlock("Done")>>, <<TextBlock("Thinking"), TextBlock("Done")>> }
    \cup { <<ToolUseBlock("tu1", n)>> : n \in AskedNames(e) }
    \cup { <<TextBlock("Thinking"), ToolUseBlock("tu1", "unknown_tool")>> }
    \cup { <<ToolUseBlock("tu1", catalog[1]), ToolUseBlock("tu2", "unknown_tool")>> }

\* Notification(request_id, title, detail, content, status); content is kept
\* as the sequence of its parts
Notification(title, detail, content, status) ==
    [title |-> title, detail |-> detail, content |-> content, status |-> status]

\* final_notification = None
None == Notification("", "", <<>>, "None")

Terminal(n) == n.status \in {"READY", "ERROR"}

\* the READY notification built at the end of the async-with body
ReadyNotification(e, m, called, final_content) ==
    IF e = "notion"
    THEN Notification("Notion", "Here's what we found in Notion based on your request:",
                      <<final_content>>, "READY")
    ELSE Notification("Calendar",
                      IF m = "copy" /\ called THEN "Updated calendar" ELSE "Fetched data",
                      <<final_content>>, "READY")

\* the except clauses that leave every exception but ValueError unreported
ExceptClausesValueErrorOnly(e, x, fn) ==
    IF x = "ValueError"
    THEN Notification("Initialization Error", "", <<x>>, "ERROR")
    ELSE fn

\* except clauses whose generic notification leaves the exception out
ExceptClausesNoMessage(e, x, fn) ==
    CASE x = "none" -> fn
      [] x = "ValueError" ->
           IF e = "notion"
           THEN Notification("Notion", "Initialization Error",
                             <<"Failed to initialize Notion connection: ", x>>, "ERROR")
           ELSE Notification("Initialization Error",
                             "Failed to initialize calendar connection: ", <<>>, "ERROR")
      [] OTHER ->
           IF e = "notion"
           THEN Notification("Notion", "Processing Error", <<"Error">>, "ERROR")
           ELSE Notification("Calendar Processing Error",
                             "An unexpected error occurred while handling your calendar request.",
                             <<"Error">>, "ERROR")

\* final_notification after the try statement: the except clauses for an
\* exception x leaving the async-with block, else what the body assigned
ExceptClauses(e, x, fn) ==
    CASE x = "none" -> fn
      [] x = "ValueError" ->
           IF e = "notion"
           THEN Notification("Notion", "Initialization Error",
                             <<"Failed to initialize Notion connection: ", x>>, "ERROR")
           ELSE Notification("Initialization Error",
                             "Failed to initialize calendar connection: ", <<>>, "ERROR")
      [] OTHER ->
           IF e = "notion"
           THEN Notification("Notion", "Processing Error", <<"Error: ", x>>, "ERROR")
           ELSE Notification("Calendar Processing Error",
                             "An unexpected error occurred while handling your calendar request.",
                             <<"Error: ", x>>, "ERROR")

\* result = contents[-1].text
FinalTextLast(c) == c[Len(c)].text

\* result = contents[0].text
FinalText(c) == c[1].text

\* one call of send_push_notification: the notification and whether the
\* call returned or raised
Sent(n, ok) == [title |-> n.title, detail |-> n.detail, content |-> n.content,
                status |-> n.status, delivered |-> ok]

\* the names of the tool-use blocks, as listed in the progress notification
RECURSIVE CallNames(_)
CallNames(calls) ==
    IF calls = <<>> THEN <<>> ELSE <<Head(calls).name>> \o CallNames(Tail(calls))

TaskInit ==
    /\ ext \in {"notion", "calendar"}
    /\ mode \in (IF ext = "notion" THEN {"copy"} ELSE {"copy", "paste"})
    /\ deps \in [mcp_url : {"missing", "empty", "set"}, anthropic_api_key : {"missing", "set"}]
    /\ catalog \in CatalogsOf(ext)
    /\ prov = NewProvider
    /\ heap = <<>>
    /\ registered = {}
    /\ last = NoCall
    /\ pc = "start" /\ exc = "none"
    /\ tools_dict = <<>> /\ messages = <<>> /\ contents = <<>> /\ tool_calls = FALSE
    /\ final_notification = None /\ notifs = <<>>
    /\ llm_calls = 0 /\ tool_rounds = 0
    /\ ConcIdle

\* the exception x leaves the async-with body
Raise(x) == exc' = x /\ pc' = "exit"

\* async with MCPToolProvider() as tool_provider:
\*     await tool_provider.initialize(...)
T_Initialize ==
    /\ pc = "start"
    /\ IF ext = "notion" /\ deps.mcp_url = "missing"
       THEN /\ Raise("KeyError")
            /\ UNCHANGED <<prov, heap, registered, last>>
       ELSE \E outcome \in InitOutcomes, co \in CloseOutcomes :
              LET url == IF deps.mcp_url = "set" THEN "url" ELSE ""
                  tools == IF ext = "calendar"
                           THEN <<Tool("get_current_time", TRUE)>> ELSE <<>>
                  r == MCPToolProvider_initialize(prov, heap, url, tools, outcome, co)
              IN  /\ prov' = r.prov
                  /\ heap' = r.heap
                  /\ registered' = registered \cup Range(r.prov.servers)
                  /\ last' = [Call("MCPToolProvider.initialize", r.created, r.raised, 0,
                                   ExitsSince(heap, r.heap), 0, 0, "nothing")
                              EXCEPT !.arg = url]
                  /\ IF r.raised # "none"
                     THEN Raise(r.raised)
                     ELSE pc' = "get_tools" /\ UNCHANGED exc
    /\ UNCHANGED <<catalog, ext, mode, deps, tools_dict, messages, contents, tool_calls,
                   final_notification, notifs, llm_calls, tool_rounds>>
    /\ UNCHANGED <<concvars, toolvars>>

\* client = anthropic.Anthropic(...); tools_dict = await get_tools_as_dicts(),
\* the filter on PASTE_DISABLED_TOOLS, and the first message
T_GetTools ==
    /\ pc = "get_tools"
    /\ IF ext = "notion" /\ deps.anthropic_api_key = "missing"
       THEN /\ Raise("KeyError")
            /\ UNCHANGED <<tools_dict, messages>>
       ELSE \E ok \in BOOLEAN :
              LET l == get_tools_as_dicts(prov, heap, catalog, ok)
              IN  IF l.raised # "none"
                  THEN /\ Raise(l.raised)
                       /\ UNCHANGED <<tools_dict, messages>>
                  ELSE /\ tools_dict' = IF ext = "notion" \/ mode = "paste"
                                        THEN SelectNames(l.tools, PASTE_DISABLED_TOOLS(ext))
                                        ELSE l.tools
                       /\ messages' = <<[role |-> "user", content |-> <<TextBlock("request")>>]>>
                       /\ pc' = "llm"
                       /\ UNCHANGED exc
    /\ UNCHANGED <<prov, heap, catalog, registered, last, ext, mode, deps, contents,
                   tool_calls, final_notification, notifs, llm_calls, tool_rounds>>
    /\ UNCHANGED <<concvars, toolvars>>

\* response = client.messages.create(...); messages.append(assistant). The
\* Calendar handler reads the key with dependencies.get(..., ""), so a request
\* without one reaches this call with an empty key, and the call raises.
T_LLM ==
    /\ pc = "llm"
    /\ llm_calls' = llm_calls + 1
    /\ \/ /\ Raise("APIError")
          /\ UNCHANGED <<contents, messages, tool_rounds>>
       \/ \E resp \in Responses(ext) :
             /\ deps.anthropic_api_key = "set"
             /\ ToolCalls(resp) # <<>> => tool_rounds < MaxRounds
             /\ contents' = resp
             /\ messages' = Append(messages, [role |-> "assistant", content |-> resp])
             /\ tool_rounds' = IF ToolCalls(resp) # <<>> THEN tool_rounds + 1 ELSE tool_rounds
             /\ pc' = IF ext = "notion" THEN "progress" ELSE "exec"
             /\ UNCHANGED exc
    /\ UNCHANGED <<prov, heap, catalog, registered, last, ext, mode, deps, tools_dict,
                   tool_calls, final_notification, notifs>>
    /\ UNCHANGED <<concvars, toolvars>>

\* Notion: the PENDING notification listing the tool calls of the response
T_Progress ==
    /\ pc = "progress"
    /\ \E ok \in BOOLEAN :
          /\ notifs' = Append(notifs,
                 Sent(Notification("Notion", "Calling Notion MCP",
                                   <<"Calling Notion MCP tools:">> \o CallNames(ToolCalls(contents)),
                                   "PENDING"), ok))
          /\ IF ok
             THEN pc' = "exec" /\ UNCHANGED exc
             ELSE Raise("SendError")
    /\ UNCHANGED <<prov, heap, catalog, registered, last, ext, mode, deps, tools_dict,
                   messages, contents, tool_calls, final_notification, llm_calls, tool_rounds>>
    /\ UNCHANGED <<concvars, toolvars>>

\* tool_results = await tool_provider.execute_all_tools(contents), then the
\* end of the loop body and, after the loop, the READY notification
T_Exec ==
    /\ pc = "exec"
    /\ \E envs \in [1..Len(ToolCalls(contents)) -> ToolEnvs] :
          LET r == execute_all_tools(prov, heap, catalog, contents, envs)
          IN  /\ last' = [Call("MCPToolProvider.execute_all_tools", 0, r.raised, 0, 0,
                               DefaultRetries, 0, "nothing")
                          EXCEPT !.env = [i \in 1..Len(ToolCalls(contents)) |->
                                             Consulted(prov, catalog,
                                                       ToolCalls(contents)[i].name,
                                                       envs[i])],
                                 !.round = llm_calls,
                                 !.tools = r.results, !.executed = r.executed]
              /\ IF r.raised # "none"
                 THEN /\ Raise(r.raised)
                      /\ UNCHANGED <<messages, tool_calls, final_notification>>
                 ELSE /\ tool_calls' = IF ext = "calendar" THEN r.results # <<>> ELSE tool_calls
                      /\ IF r.results = <<>>
                         THEN IF contents = <<>>
                              THEN /\ Raise("IndexError")
                                   /\ UNCHANGED <<messages, final_notification>>
                              ELSE /\ final_notification' =
                                         ReadyNotification(ext, mode, tool_calls',
                                                           FinalText(contents))
                                   /\ Raise("none")
                                   /\ UNCHANGED messages
                         ELSE /\ messages' = Append(messages,
                                                    [role |-> "user", content |-> r.results])
                              /\ pc' = "llm"
                              /\ UNCHANGED <<exc, final_notification>>
    /\ UNCHANGED <<prov, heap, catalog, registered, ext, mode, deps, tools_dict,
                   contents, notifs, llm_calls, tool_rounds>>
    /\ UNCHANGED <<concvars, toolvars>>

\* the exceptions that the collaborators and the body raise, all of them
\* subclasses of Exception
ExceptionKinds ==
    {"ValueError", "KeyError", "RuntimeError", "TransportError", "APIError",
     "IndexError", "SendError"}

\* a try statement that catches nothing
CaughtNothing(x) == FALSE

\* a try statement that catches ValueError only
CaughtValueErrorOnly(x) == x = "ValueError"

\* the exceptions caught by 'except ValueError' / 'except Exception', and by
\* the 'except Exception' around the final send
Caught(x) == x \in ExceptionKinds

\* the end of the async-with block: __aexit__ runs cleanup() and lets the
\* exception (its own, if cleanup raised) through to the except clauses; an
\* exception that no clause catches leaves the task
T_Exit ==
    /\ pc = "exit"
    /\ \E co \in CloseOutcomes :
          LET c == MCPToolProvider_cleanup(prov, heap, co)
              x == IF c.raised # "none" THEN c.raised ELSE exc
          IN  /\ prov' = c.prov
              /\ heap' = c.heap
              /\ exc' = x
              /\ IF x = "none" \/ Caught(x)
                 THEN /\ final_notification' = ExceptClauses(ext, x, final_notification)
                      /\ pc' = "send"
                 ELSE /\ pc' = "crashed"
                      /\ UNCHANGED final_notification
    /\ UNCHANGED <<catalog, registered, last, ext, mode, deps, tools_dict, messages,
                   contents, tool_calls, notifs, llm_calls, tool_rounds>>
    /\ UNCHANGED <<concvars, toolvars>>

\* if final_notification: await self.send_push_notification(...), a failure
\* of which is logged
T_Send ==
    /\ pc = "send"
    /\ IF final_notification # None
       THEN \E ok \in BOOLEAN :
               /\ notifs' = Append(notifs, Sent(final_notification, ok))
               /\ pc' = IF ok \/ Caught("SendError") THEN "done" ELSE "crashed"
       ELSE UNCHANGED notifs /\ pc' = "done"
    /\ UNCHANGED <<prov, heap, catalog, registered, last, ext, mode, deps, exc, tools_dict,
                   messages, contents, tool_calls, final_notification, llm_calls,
                   tool_rounds>>
    /\ UNCHANGED <<concvars, toolvars>>

Next ==
    \/ T_Initialize
    \/ T_GetTools
    \/ T_LLM
    \/ T_Progress
    \/ T_Exec
    \/ T_Exit
    \/ T_Send

Spec == TaskInit /\ [][Next]_vars

\* the task on an event loop that resumes it whenever the call it awaits has
\* returned or raised: every external call returns
LiveSpec == Spec /\ WF_vars(Next)

\* ------------------------------------------ background tasks of two requests
\* The host's event loop with two requests: the handlers, and each task cut
\* at the awaits that suspend it. client.messages.create is a call of the
\* synchronous client: from its start to its return no other coroutine runs.

\* the event loop is free to run a coroutine
CanRun == blocked = "none"

\* MCPToolProvider() of a task, with its Server: none yet, ready, or closed
NewTaskProvider == [initialized |-> FALSE, server |-> "none"]

\* one provider object used by every task
AllocateShared(os) == 1

\* `async with MCPToolProvider() as tool_provider`: a new object each run
Allocate(os) == Len(os) + 1

\* a task that has run to its end when create_task returns
create_task_Eager(ts, r) == [ts EXCEPT ![r].pc = "done", ![r].status = "READY"]

\* asyncio.create_task(self._process_in_background(...)): the coroutine is
\* scheduled, it runs when the event loop gets to it
create_task(ts, r) == [ts EXCEPT ![r].pc = "scheduled"]

\* every tool call of the round started at once
LaunchAll(n) == n

\* the loop of execute_all_tools awaits each execute_tool before the next:
\* of n calls to make, the number it starts
Launch(n) == IF n > 0 THEN 1 ELSE 0

\* messages of request r: the text, a response with n tool-use blocks, n results
UserText(r) == [role |-> "user", of |-> r, kind |-> "text", n |-> 0]
AssistantMsg(r, n) == [role |-> "assistant", of |-> r, kind |-> "response", n |-> n]
ToolResults(r, n) == [role |-> "user", of |-> r, kind |-> "tool_results", n |-> n]

\* response = client.messages.create(...) begins
CallLLM(t) == [t EXCEPT !.pc = "in_llm", !.llm = 1]

\* on_copy of either extension
H_on_copy(r) ==
    /\ CanRun
    /\ acks[r] = "none"
    /\ \E selected_text \in {"", "text"} :
          IF selected_text = ""
          THEN /\ acks' = [acks EXCEPT ![r] = "None"]
               /\ UNCHANGED tasks
          ELSE /\ tasks' = create_task(tasks, r)
               /\ acks' = [acks EXCEPT ![r] = "CopyResponse PENDING"]
    /\ UNCHANGED <<prov, heap, catalog, registered, last, taskvars, toolvars, callers, objs, out,
                   blocked>>

\* on_paste of the Calendar extension
H_on_paste(r) ==
    /\ CanRun
    /\ acks[r] = "none"
    /\ \E relevant \in BOOLEAN :
          IF ~relevant
          THEN /\ acks' = [acks EXCEPT ![r] = "None"]
               /\ UNCHANGED tasks
          ELSE /\ tasks' = create_task(tasks, r)
               /\ acks' = [acks EXCEPT ![r] = "PasteResponse PENDING"]
    /\ UNCHANGED <<prov, heap, catalog, registered, last, taskvars, toolvars, callers, objs, out,
                   blocked>>

\* the task runs to its first await: MCPToolProvider(), then initialize,
\* which raises at once for an empty mcp_url (nothing to clean, no await
\* before the final send) or suspends in server.initialize()
B_Start(r) ==
    /\ CanRun
    /\ tasks[r].pc = "scheduled"
    /\ LET i == Allocate(objs)
       IN  /\ objs' = IF i > Len(objs) THEN Append(objs, NewTaskProvider) ELSE objs
           /\ \E mcp_url \in {"", "url"} :
                 tasks' = [tasks EXCEPT ![r] =
                             IF mcp_url = ""
                             THEN [@ EXCEPT !.tp = i, !.status = "ERROR", !.pc = "await_send"]
                             ELSE [@ EXCEPT !.tp = i, !.pc = "await_initialize"]]
    /\ UNCHANGED <<prov, heap, catalog, registered, last, taskvars, toolvars, callers, acks, out,
                   blocked>>

\* server.initialize() is over: registered, and the listing is requested; or
\* the exception leaves the async-with with no Server to clean
B_Initialized(r) ==
    /\ CanRun
    /\ tasks[r].pc = "await_initialize"
    /\ \E ok \in BOOLEAN :
          IF ok
          THEN /\ objs' = [objs EXCEPT ![tasks[r].tp] =
                              [initialized |-> TRUE, server |-> "ready"]]
               /\ tasks' = [tasks EXCEPT ![r].pc = "await_list"]
          ELSE /\ objs' = [objs EXCEPT ![tasks[r].tp].initialized = FALSE]
               /\ tasks' = [tasks EXCEPT ![r].status = "ERROR", ![r].pc = "await_send"]
    /\ UNCHANGED <<prov, heap, catalog, registered, last, taskvars, toolvars, callers, acks, out,
                   blocked>>

\* get_tools_as_dicts is over: messages = [the text] and the first call of
\* the LLM begins; or the exception leaves the async-with, which cleans up
B_Listed(r) ==
    /\ CanRun
    /\ tasks[r].pc = "await_list"
    /\ \E ok \in BOOLEAN :
          IF ok
          THEN /\ tasks' = [tasks EXCEPT ![r] =
                               CallLLM([@ EXCEPT !.messages = <<UserText(r)>>])]
               /\ blocked' = r
          ELSE /\ tasks' = [tasks EXCEPT ![r].status = "ERROR", ![r].pc = "await_cleanup"]
               /\ UNCHANGED blocked
    /\ UNCHANGED <<prov, heap, catalog, registered, last, taskvars, toolvars, callers, objs, acks,
                   out>>

\* client.messages.create returns or raises: with tool-use blocks the
\* response is appended and execute_all_tools starts on them; without, the
\* READY notification is made and the async-with is left
B_LLM_returns(r) ==
    /\ blocked = r
    /\ tasks[r].pc = "in_llm"
    /\ blocked' = "none"
    /\ \/ tasks' = [tasks EXCEPT ![r] =
                       [@ EXCEPT !.llm = 0, !.status = "ERROR", !.pc = "await_cleanup"]]
       \/ tasks' = [tasks EXCEPT ![r] =
                       [@ EXCEPT !.llm = 0, !.status = "READY", !.pc = "await_cleanup",
                                 !.messages = Append(@, AssistantMsg(r, 0))]]
       \/ /\ tasks[r].rounds < MaxRounds
          /\ \E n \in 1..2 :
                tasks' = [tasks EXCEPT ![r] =
                            [@ EXCEPT !.llm = 0, !.rounds = @ + 1, !.pc = "await_tool",
                                      !.messages = Append(@, AssistantMsg(r, n)),
                                      !.calls = n, !.running = Launch(n)]]
    /\ UNCHANGED <<prov, heap, catalog, registered, last, taskvars, toolvars, callers, objs, acks,
                   out>>

\* an execute_tool is over: the loop starts the next call; after the last
\* the results are appended and the next call of the LLM begins; an
\* exception of execute_tool leaves the async-with
B_tool_returned(r) ==
    /\ CanRun
    /\ tasks[r].pc = "await_tool"
    /\ tasks[r].running > 0
    /\ LET rem == tasks[r].calls - 1
           run == tasks[r].running - 1
           n   == tasks[r].messages[Len(tasks[r].messages)].n
       IN  \/ /\ tasks' = [tasks EXCEPT ![r] =
                              [@ EXCEPT !.calls = 0, !.running = 0, !.status = "ERROR",
                                        !.pc = "await_cleanup"]]
              /\ UNCHANGED blocked
           \/ IF rem = 0
              THEN /\ tasks' = [tasks EXCEPT ![r] =
                                   CallLLM([@ EXCEPT !.calls = 0, !.running = 0,
                                                     !.messages = Append(@, ToolResults(r, n))])]
                   /\ blocked' = r
              ELSE /\ tasks' = [tasks EXCEPT ![r] =
                                   [@ EXCEPT !.calls = rem,
                                             !.running = IF run = 0 THEN Launch(rem) ELSE run]]
                   /\ UNCHANGED blocked
    /\ UNCHANGED <<prov, heap, catalog, registered, last, taskvars, toolvars, callers, objs, acks,
                   out>>

\* __aexit__: cleanup() of the provider is over
B_cleaned(r) ==
    /\ CanRun
    /\ tasks[r].pc = "await_cleanup"
    /\ objs' = [objs EXCEPT ![tasks[r].tp] = [initialized |-> FALSE, server |-> "closed"]]
    /\ tasks' = [tasks EXCEPT ![r].pc = "await_send"]
    /\ UNCHANGED <<prov, heap, catalog, registered, last, taskvars, toolvars, callers, acks, out,
                   blocked>>

\* await self.send_push_notification(...) of the final notification
B_sent(r) ==
    /\ CanRun
    /\ tasks[r].pc = "await_send"
    /\ out' = Append(out, [request_id |-> r, status |-> tasks[r].status])
    /\ tasks' = [tasks EXCEPT ![r].pc = "done"]
    /\ UNCHANGED <<prov, heap, catalog, registered, last, taskvars, toolvars, callers, objs, acks,
                   blocked>>

\* what the event loop can run for request r
RequestStep(r) ==
    \/ H_on_copy(r)
    \/ H_on_paste(r)
    \/ B_Start(r)
    \/ B_Initialized(r)
    \/ B_Listed(r)
    \/ B_LLM_returns(r)
    \/ B_tool_returned(r)
    \/ B_cleaned(r)
    \/ B_sent(r)

TasksNext == \E r \in Requests : RequestStep(r)

\* the host before any event of the two requests: no task, no provider
TasksInit ==
    /\ prov = NewProvider
    /\ heap = <<>>
    /\ catalog = <<"create_event", "list_events">>
    /\ registered = {}
    /\ last = NoCall
    /\ TaskQuiet
    /\ callers = <<>>
    /\ tasks = [r \in Requests |-> NoTask]
    /\ objs = <<>>
    /\ acks = [r \in Requests |-> "none"]
    /\ out = <<>>
    /\ blocked = "none"
    /\ ToolIdle

TasksSpec == TasksInit /\ [][TasksNext]_vars

\* ------------------------------------------------------ Tool.from_function
\* A function is its name, its declared parameters in order, each with the
\* name of its annotation's type or "unannotated", and its return
\* annotation. Decimal stands for a type outside the map; NoneType for the
\* annotation `-> None`, whose value has no __name__.

\* the keys of PYTHON_TO_JSON_TYPE_MAP
MappedTypes == {"int", "float", "str", "bool", "list", "dict"}

PYTHON_TO_JSON_TYPE_MAP(ty) ==
    CASE ty = "int"   -> "integer"
      [] ty = "float" -> "number"
      [] ty = "str"   -> "string"
      [] ty = "bool"  -> "boolean"
      [] ty = "list"  -> "array"
      [] ty = "dict"  -> "object"

ParamTypes == MappedTypes \cup {"Decimal", "unannotated"}
ReturnTypes == {"unannotated", "str", "Decimal", "NoneType"}
ParamNames == <<"timezone", "count", "flag", "items">>

\* the functions with up to MaxParams parameters
Functions ==
    UNION { [name : {"get_current_time"},
             params : { [i \in 1..n |-> [name |-> ParamNames[i], type |-> tys[i]]] :
                           tys \in [1..n -> ParamTypes] },
             ret : ReturnTypes] : n \in 0..MaxParams }

\* func.__annotations__.items(): the annotated parameters in the order of
\* the signature, then the return annotation under the key "return"
Annotations(f) ==
    SelectSeq(f.params, LAMBDA q : q.type # "unannotated")
    \o (IF f.ret # "unannotated" THEN <<[name |-> "return", type |-> f.ret]>> ELSE <<>>)

\* Tool.from_function(func): one property per item of __annotations__, in
\* order; the map lookup raises KeyError for a type name that is not a key,
\* and None.__name__ raises AttributeError
from_function(f) ==
    LET a == Annotations(f)
        bad == {i \in 1..Len(a) : a[i].type \notin MappedTypes}
    IN  IF bad # {}
        THEN [raised |-> IF a[CHOOSE i \in bad : \A j \in bad : i <= j].type = "NoneType"
                         THEN "AttributeError" ELSE "KeyError",
              name |-> "", properties |-> <<>>]
        ELSE [raised |-> "none", name |-> f.name,
              properties |-> [i \in 1..Len(a) |->
                                [name |-> a[i].name,
                                 type |-> PYTHON_TO_JSON_TYPE_MAP(a[i].type)]]]

\* a program that holds a function
SchemaInit ==
    /\ prov = NewProvider
    /\ heap = <<>>
    /\ catalog = <<"create_event", "list_events">>
    /\ registered = {}
    /\ last = NoCall
    /\ TaskQuiet
    /\ callers = <<>> /\ tasks = <<>> /\ objs = <<>> /\ acks = <<>> /\ out = <<>>
    /\ blocked = "none"
    /\ func \in Functions
    /\ made = <<>>

\* Tool.from_function(func)
L_Tool_from_function ==
    /\ made = <<>>
    /\ made' = <<from_function(func)>>
    /\ UNCHANGED <<libvars, taskvars, concvars, func>>

SchemaNext == L_Tool_from_function

SchemaSpec == SchemaInit /\ [][SchemaNext]_vars

\* ------------------------------------------------- claims about the Server

\* the Server the last call was about
LastServer == heap[last.server]

\* the context fields of s that are set
SetContexts(s) ==
    (IF s.session_context # "None" THEN 1 ELSE 0)
    + (IF s.streams_context # "None" THEN 1 ELSE 0)

\* C5: after a failed Server.initialize the Server is as if never
\* initialized: no session, no open stream or session context kept, and
\* list_tools / execute_tool reject with the not-initialized error.
C5_FailedInitLeavesNothing ==
    /\ (last.op = "Server.initialize" /\ last.raised # "none") =>
          /\ ~LastServer.session
          /\ LastServer.session_context # "open"
          /\ LastServer.streams_context # "open"
    /\ (last.op \in {"Server.list_tools", "Server.execute_tool"}
        /\ LastServer.init_result = "failed") =>
          (last.raised = "RuntimeError" /\ last.remote_calls = 0)

\* a Server closed by a cleanup that returned, after a successful initialize
Closed(s) == s.init_result = "ok" /\ s.cleanups >= 1 /\ ~s.cleanup_raised

\* C6: list_tools and execute_tool are rejected with the not-initialized
\* error, and make no remote call, on a Server never initialized and on a
\* Server closed by cleanup after a successful initialize.
C6_RejectsWhenNotReady ==
    (/\ last.op \in {"Server.list_tools", "Server.execute_tool"}
     /\ (LastServer.init_result = "never" \/ Closed(LastServer))) =>
        (last.raised = "RuntimeError" /\ last.remote_calls = 0)

\* C7: Server.cleanup never raises, and calls __aexit__ on every context the
\* Server holds (a failure closing the session does not skip the stream).
C7_CleanupNeverRaises ==
    last.op = "Server.cleanup" =>
        (last.raised = "none" /\ last.closes = SetContexts(LastServer))

\* C8: a second Server.cleanup right after a first one raises nothing and
\* closes neither the session nor the transport stream again (stated for
\* the environment in which every close succeeds).
C8_ServerCleanupIdempotent ==
    (/\ last.op = "Server.cleanup" /\ last.prev = "Server.cleanup"
     /\ ~LastServer.cleanup_raised) =>
        (last.raised = "none" /\ last.closes = 0)

\* C10: on a Server with a session, execute_tool with retries = r >= 1
\* against a remote call failing its first k invocations makes r calls and
\* raises when k >= r, and makes k + 1 calls and returns the result when
\* k < r.
C10_RetryBound ==
    (last.op = "Server.execute_tool" /\ LastServer.session /\ last.retries >= 1) =>
        IF last.fails >= last.retries
        THEN last.remote_calls = last.retries /\ last.raised = "TransportError"
        ELSE /\ last.remote_calls = last.fails + 1
             /\ last.raised = "none"
             /\ last.returned = "result"

\* C10, reached: retries = 3 against a call failing twice, then succeeding
C10_Witness ==
    /\ last.op = "Server.execute_tool"
    /\ LastServer.session
    /\ last.retries = 3 /\ last.fails = 2
    /\ last.remote_calls = 3 /\ last.returned = "result"


\* ---------------------------------------- claims about the MCPToolProvider

\* the Server created by the last MCPToolProvider.initialize holds an open
\* transport stream or session
LeakedByInitialize ==
    /\ last.server # 0
    /\ \/ heap[last.server].streams_context = "open"
       \/ heap[last.server].session_context = "open"

\* C1: when MCPToolProvider.initialize has returned or raised, either the
\* Server is ready and initialized is True, or initialized is False and no
\* Server created by the call still holds an open stream or session.
C1_InitializeAllOrNothing ==
    last.op = "MCPToolProvider.initialize" =>
        \/ /\ last.raised = "none"
           /\ prov.initialized
           /\ prov.servers = <<last.server>>
           /\ heap[last.server].init_result = "ok"
           /\ heap[last.server].session
        \/ /\ last.raised # "none"
           /\ ~prov.initialized
           /\ ~LeakedByInitialize

\* a cleanup of the provider ran just before the last call: a call of
\* cleanup, or the one initialize makes when it fails
JustCleaned(l) ==
    \/ l.op = "MCPToolProvider.cleanup"
    \/ (l.op = "MCPToolProvider.initialize" /\ l.raised # "none")

\* C9: after MCPToolProvider.cleanup, servers is empty and initialized is
\* False; a cleanup that follows a cleanup (also the one a failing initialize
\* made) raises nothing, calls cleanup on no Server and changes nothing.
C9_ProviderCleanupIdempotent ==
    /\ [](last.op = "MCPToolProvider.cleanup" =>
            (prov.servers = <<>> /\ ~prov.initialized /\ last.raised = "none"))
    /\ [][(last'.op = "MCPToolProvider.cleanup" /\ JustCleaned(last)) =>
            (prov' = prov /\ heap' = heap /\ last'.closes = 0)]_vars

\* C9, reached: a second cleanup in a row, the first of which cleaned up a
\* registered Server
C9_Witness ==
    /\ last.op = "MCPToolProvider.cleanup"
    /\ last.prev = "MCPToolProvider.cleanup"
    /\ \E i \in registered : heap[i].cleanups = 1


\* ------------------------------------------ claims about the background task

\* the positions of the sent notifications that are terminal (READY or ERROR)
TerminalSends == {i \in 1..Len(notifs) : Terminal(notifs[i])}

\* C2: when the background task ends, on whatever path, the provider has
\* been cleaned up: initialized is False, servers is empty, and cleanup was
\* called on every Server that had been registered.
C2_ProviderReleasedAtEnd ==
    pc \in {"send", "done"} =>
        /\ ~prov.initialized
        /\ prov.servers = <<>>
        /\ \A i \in registered : heap[i].cleanups >= 1

\* C2, reached: a task that registered a Server, failed in the loop body and
\* ended
C2_Witness ==
    /\ pc = "done"
    /\ registered # {}
    /\ exc \notin {"none", "ValueError"}
    /\ llm_calls >= 1

\* C3: a run sends exactly one terminal notification (READY or ERROR), on
\* whatever path, and no notification after it.
C3_OneTerminalNotification ==
    /\ pc = "done" => Cardinality(TerminalSends) = 1
    /\ \A i \in TerminalSends : i = Len(notifs)

\* C3, reached: a run that sent a progress notification, then failed, and
\* ended with its ERROR notification
C3_Witness ==
    /\ pc = "done"
    /\ Len(notifs) >= 2
    /\ notifs[1].status = "PENDING"
    /\ notifs[Len(notifs)].status = "ERROR"

\* the last response has no tool-use block and is not empty
FinalRound == contents # <<>> /\ ToolCalls(contents) = <<>>

\* every progress notification was accepted by send_push_notification
ProgressDelivered == \A i \in 1..Len(notifs) : notifs[i].status = "PENDING" => notifs[i].delivered

\* C4: when the LLM has returned N rounds with tool-use blocks and then a
\* non-empty round without any (and the progress notifications were
\* accepted), the task has made N + 1 LLM calls and ends with exactly one
\* READY notification, whose content is the text of the first block of the
\* final round.
C4_TerminatesAfterNPlusOneCalls ==
    (pc = "done" /\ FinalRound /\ ProgressDelivered) =>
        /\ llm_calls = tool_rounds + 1
        /\ Cardinality({i \in 1..Len(notifs) : notifs[i].status = "READY"}) = 1
        /\ notifs[Len(notifs)].status = "READY"
        /\ notifs[Len(notifs)].content = <<contents[1].text>>

\* C4, reached: Calendar, the LLM asks for get_current_time and then answers
\* "Done": two LLM calls and a READY notification "Done"
C4_Witness ==
    /\ pc = "done"
    /\ ext = "calendar" /\ mode = "copy"
    /\ tool_rounds = 1 /\ llm_calls = 2
    /\ messages[2].content = <<ToolUseBlock("tu1", "get_current_time")>>
    /\ contents = <<TextBlock("Done")>>
    /\ notifs = <<Sent(Notification("Calendar", "Fetched data", <<"Done">>, "READY"), TRUE)>>

\* the last call was initialize with an empty mcp_url
EmptyUrlGiven(l) == l.op = "MCPToolProvider.initialize" /\ l.arg = ""

\* C14: initialize with an empty mcp_url raises the configuration error
\* (ValueError) with no Server made and no connection attempted, and leaves
\* the provider with initialized False and no servers.
C14_EmptyUrlRejected ==
    /\ [](EmptyUrlGiven(last) =>
             /\ last.raised = "ValueError"
             /\ last.server = 0
             /\ ~prov.initialized /\ prov.servers = <<>>)
    /\ [][EmptyUrlGiven(last') =>
             /\ Len(heap') = Len(heap)
             /\ \A i \in 1..Len(heap) : heap'[i].init_result = heap[i].init_result]_vars

\* initialize with an empty mcp_url was called on a provider that was ready
C14_Witness ==
    /\ EmptyUrlGiven(last)
    /\ last.raised = "ValueError"
    /\ registered # {}
    /\ last.closes > 0

InInitialize(c) == callers[c].op = "initialize" /\ callers[c].at # "idle"

\* the Server was initialized and is no longer in servers, and no cleanup
\* has run or is about to run on it
Lost(id) ==
    /\ heap[id].init_result = "ok" /\ heap[id].cleanups = 0
    /\ id \notin Range(prov.servers)
    /\ \A c \in Callers : id \notin Range(callers[c].todo)

\* C26: two calls of initialize on the same MCPToolProvider are serialized
\* by the initialization lock: never are both inside initialize, and no
\* Server that one of them initialized is dropped from servers without
\* cleanup because of the other.
C26_InitializeSerialized ==
    /\ \A a, b \in Callers : a # b => ~(InInitialize(a) /\ InInitialize(b))
    /\ \A id \in 1..Len(heap) : ~Lost(id)

\* ------------------------------------------- claims about tool execution

\* the last call was execute_tool(name, ...) on an initialized provider
ToolExecuted ==
    /\ last.op = "MCPToolProvider.execute_tool"
    /\ prov.initialized

\* the name is that of a local tool of the provider / of a tool of its server
IsLocalName(name) ==
    \E i \in 1..Len(prov.additional_tools) :
        prov.additional_tools[i].name = name /\ prov.additional_tools[i].local_tool

IsRemoteName(name) == prov.servers # <<>> /\ name \in Range(catalog)

\* the server answered the listing of its tools in the last call
ListingAnswered == \A i \in 1..Len(last.env) : last.env[i].list_ok

\* C11: execute_tool looks at the local tools first: a name that a local
\* tool has runs the local implementation and nothing on the server, also
\* when the server has a tool of that name; a name that only the server has
\* is executed by Server.execute_tool; a name that nobody has gives the
\* "No tool found with name" string and no exception (the server answering
\* the listing of its tools in the last two cases).
C11_LocalFirstResolution ==
    ToolExecuted =>
        /\ IsLocalName(last.arg) =>
              /\ last.local_invoked
              /\ last.remote_calls = 0 /\ last.list_calls = 0
              /\ last.raised = "none"
              /\ last.returned \in {"local_result", "local_error"}
        /\ ~IsLocalName(last.arg) /\ IsRemoteName(last.arg) /\ ListingAnswered =>
              /\ ~last.local_invoked
              /\ last.remote_calls >= 1
              /\ last.raised = "none"
              /\ last.returned \notin {"not_found", "local_result", "local_error"}
        /\ ~IsLocalName(last.arg) /\ ~IsRemoteName(last.arg) /\ ListingAnswered =>
              /\ last.returned = "not_found"
              /\ last.raised = "none"
              /\ ~last.local_invoked /\ last.remote_calls = 0

\* a name that both a local tool and the server have was executed
C11_Witness ==
    /\ ToolExecuted
    /\ IsLocalName(last.arg) /\ IsRemoteName(last.arg)
    /\ last.local_invoked /\ last.remote_calls = 0

\* C12: execute_tool on an initialized provider never raises: a failure of
\* the local function, of the remote call after its retries, or of the
\* listing of a server's tools comes back as an error text.
C12_ExecuteToolNeverRaises ==
    ToolExecuted => last.raised = "none"

\* the last call was execute_tool of a tool that only the server has, and
\* the remote call succeeded within its retries
RemoteCallSucceeded ==
    /\ ToolExecuted
    /\ ~IsLocalName(last.arg) /\ IsRemoteName(last.arg)
    /\ ListingAnswered
    /\ last.env[1].fails < DefaultRetries

\* C25: when the remote call succeeds, execute_tool returns the text of a
\* result whose first content item is text and the result itself otherwise;
\* a result of the {progress, total} shape is returned as a result, not as
\* an error text.
C25_SuccessfulResultReturned ==
    RemoteCallSucceeded =>
        /\ last.raised = "none"
        /\ last.env[1].shape = "text" => last.returned = "server_text"
        /\ last.env[1].shape = "other" => last.returned = "server_raw"
        /\ last.env[1].shape = "progress" => last.returned \in {"server_text", "server_raw"}

\* ------------------------------------------ claims about the catalog

\* the methods of the provider that need it initialized
CatalogMethods ==
    {"MCPToolProvider.get_all_tools", "MCPToolProvider.get_tools_as_dicts",
     "MCPToolProvider.execute_tool", "MCPToolProvider.execute_all_tools"}

\* C22: get_all_tools, get_tools_as_dicts, execute_tool and execute_all_tools
\* called while initialized is False (before initialize, after a failed
\* initialize, after cleanup) raise the not-initialized error (RuntimeError)
\* and contact no Server and run no local tool.
C22_NotInitializedRejected ==
    last.op \in CatalogMethods /\ ~prov.initialized =>
        /\ last.raised = "RuntimeError"
        /\ last.list_calls = 0 /\ last.remote_calls = 0
        /\ ~last.local_invoked
        /\ last.tools = <<>> /\ last.executed = <<>>

\* a method was called on a provider that had been ready, had a local tool
\* and was cleaned up
C22_Witness ==
    /\ last.op \in CatalogMethods /\ ~prov.initialized
    /\ last.prev = "MCPToolProvider.cleanup"
    /\ prov.additional_tools # <<>>
    /\ heap # <<>> /\ heap[1].init_result = "ok"
    /\ last.raised = "RuntimeError"

\* the names the server lists followed by the names of the local tools
MergedNames ==
    catalog \o [i \in 1..Len(prov.additional_tools) |-> prov.additional_tools[i].name]

\* C23: get_all_tools on an initialized provider returns the tools the
\* Server lists, in its order, followed by the local tools in their order,
\* with no name dropped as a duplicate; get_tools_as_dicts returns the
\* descriptors of that sequence in the same order.
C23_MergedListOrder ==
    prov.initialized /\ ListingAnswered =>
        /\ last.op = "MCPToolProvider.get_all_tools" =>
              /\ last.raised = "none"
              /\ Len(last.tools) = Len(MergedNames)
              /\ \A i \in 1..Len(last.tools) :
                    /\ last.tools[i].name = MergedNames[i]
                    /\ last.tools[i].local_tool = (i > Len(catalog))
        /\ last.op = "MCPToolProvider.get_tools_as_dicts" =>
              /\ last.raised = "none"
              /\ last.tools = [i \in 1..Len(MergedNames) |-> [name |-> MergedNames[i]]]

\* the descriptors were asked of a provider whose local tool has the name
\* of a tool of the server
C23_Witness ==
    /\ prov.initialized /\ ListingAnswered
    /\ last.op = "MCPToolProvider.get_tools_as_dicts"
    /\ MergedNames = <<"get_current_time", "update_event", "get_current_time">>
    /\ Len(last.tools) = 3

\* the tool-use blocks of the response that the last execute_all_tools of the
\* task was given
LastToolUses ==
    SelectSeq(messages[2 * last.round].content, LAMBDA b : b.type = "tool_use")

\* C24: execute_all_tools executes one tool per tool-use block of the
\* response, in the order of the blocks, and returns one tool_result per
\* block in that order, each with the id of its block; what it returns is
\* empty exactly when the response has no tool-use block.
C24_OneResultPerBlock ==
    last.op = "MCPToolProvider.execute_all_tools" =>
        /\ Len(last.executed) <= Len(LastToolUses)
        /\ \A i \in 1..Len(last.executed) : last.executed[i] = LastToolUses[i].name
        /\ ListingAnswered => last.raised = "none"
        /\ last.raised = "none" =>
              /\ Len(last.executed) = Len(LastToolUses)
              /\ Len(last.tools) = Len(LastToolUses)
              /\ \A i \in 1..Len(last.tools) :
                    /\ last.tools[i].type = "tool_result"
                    /\ last.tools[i].tool_use_id = LastToolUses[i].id
                    /\ last.tools[i].content.tool = LastToolUses[i].name
              /\ (last.tools = <<>>) <=> (LastToolUses = <<>>)

\* a response with two tool-use blocks was executed
C24_Witness ==
    /\ last.op = "MCPToolProvider.execute_all_tools"
    /\ last.raised = "none"
    /\ Len(LastToolUses) = 2 /\ Len(last.tools) = 2
    /\ last.tools[1].tool_use_id = "tu1" /\ last.tools[2].tool_use_id = "tu2"
    /\ last.executed = <<LastToolUses[1].name, "unknown_tool">>

\* ------------------------------------- claims about failures in the task

\* the tool calls of the response that the last execute_all_tools was given
LastCalls == ToolCalls(messages[2 * last.round].content)

\* the i-th call of the last execute_all_tools was a call of a tool that only
\* the server has and that failed until the retries were used up, the
\* server answering every listing of its tools
RetriesExhausted(i) ==
    /\ last.op = "MCPToolProvider.execute_all_tools"
    /\ i \in 1..Len(last.env)
    /\ LastCalls[i].name \in Range(catalog)
    /\ ~IsLocalName(LastCalls[i].name)
    /\ last.env[i].fails >= DefaultRetries
    /\ ListingAnswered

\* C13: a remote tool call that fails until its retries are used up does not
\* end the conversation loop: execute_all_tools returns, the failure is the
\* content of that call's tool_result in the user message that follows the
\* response, and the loop goes on to a further LLM call.
C13_ExhaustedRetriesGoOn ==
    \A i \in 1..Len(last.env) :
        RetriesExhausted(i) =>
            /\ last.raised = "none"
            /\ Len(messages) >= 2 * last.round + 1
            /\ messages[2 * last.round + 1].role = "user"
            /\ messages[2 * last.round + 1].content[i] =
                   [type |-> "tool_result", tool_use_id |-> LastCalls[i].id,
                    content |-> ToolResult("server_error: TransportError",
                                           LastCalls[i].name)]
            /\ pc = "llm" \/ llm_calls > last.round

\* a tool_result of some message carries the failure of a remote call
CarriesExhaustedCall(m) ==
    /\ m.role = "user"
    /\ \E i \in 1..Len(m.content) :
          /\ m.content[i].type = "tool_result"
          /\ m.content[i].content.kind = "server_error: TransportError"

\* a run in which a remote call used up its retries ended with READY
C13_Witness ==
    /\ pc = "done"
    /\ \E j \in 2..Len(messages) : CarriesExhaustedCall(messages[j])
    /\ \E k \in 1..Len(notifs) : notifs[k].status = "READY" /\ notifs[k].delivered

\* the notification names the failure as one of initialization
MentionsInitialization(n) ==
    n.title = "Initialization Error" \/ n.detail = "Initialization Error"

\* C15: with the MCP URL missing from the dependencies or empty, the task
\* makes no LLM call and no connection attempt, and sends exactly one
\* notification, an ERROR that names the failure as an initialization
\* error, in the Notion and in the Calendar extension.
C15_ConfigErrorReported ==
    pc = "done" /\ deps.mcp_url \in {"missing", "empty"} =>
        /\ llm_calls = 0
        /\ heap = <<>>
        /\ Len(notifs) = 1
        /\ notifs[1].status = "ERROR"
        /\ MentionsInitialization(notifs[1])

\* C16: when Server.initialize fails (transport or handshake error),
\* MCPToolProvider.initialize raises and leaves initialized False, and the
\* task sends exactly one notification, an ERROR whose text names
\* "Initialization".
C16_ConnectErrorReported ==
    pc = "done" /\ heap # <<>> /\ heap[1].init_result = "failed" =>
        /\ last.op = "MCPToolProvider.initialize" /\ last.raised # "none"
        /\ ~prov.initialized
        /\ Len(notifs) = 1
        /\ notifs[1].status = "ERROR"
        /\ MentionsInitialization(notifs[1])

\* the places in notifs of the notifications of a status
SentWith(status) == {k \in 1..Len(notifs) : notifs[k].status = status}

\* C17: an exception raised once the provider is acquired (a failing LLM
\* call, an empty LLM response, a failing listing of the tools, ...) ends
\* the run with a single ERROR notification that carries the message of the
\* exception, and with no READY notification.
C17_BodyErrorReported ==
    pc = "done" /\ registered # {} /\ exc # "none" =>
        /\ Cardinality(SentWith("ERROR")) = 1
        /\ \A k \in SentWith("ERROR") : notifs[k].content = <<"Error: ", exc>>
        /\ SentWith("READY") = {}

\* a run ended by an empty LLM response
C17_Witness ==
    /\ pc = "done" /\ registered # {}
    /\ exc = "IndexError" /\ contents = <<>>
    /\ Cardinality(SentWith("ERROR")) = 1

\* C18: no exception leaves _process_in_background: a failure in the body,
\* in the acquisition or the release of the provider, or in the send of the
\* terminal notification is caught, and the task runs to its end.
C18_NothingPropagates == pc # "crashed"

\* a run in which the body failed, the release of the Server failed and the
\* send of the terminal notification failed, and which ended all the same
C18_Witness ==
    /\ pc = "done"
    /\ exc = "APIError"
    /\ heap # <<>> /\ heap[1].cleanup_raised
    /\ notifs # <<>> /\ ~notifs[Len(notifs)].delivered

\* -------------------------------------- claims about the paste denylist

\* the merged list of descriptors that the ready provider hands out
FullList == get_tools_as_dicts(prov, heap, catalog, TRUE).tools

\* the names of a list of descriptors, in order
Names(ds) == [i \in 1..Len(ds) |-> ds[i].name]

\* C19: in paste mode the descriptors given to the LLM calls have no tool
\* of the denylist of the extension, and are all the other descriptors of
\* the merged list in their original order.
C19_PasteListFiltered ==
    mode = "paste" /\ pc = "llm" =>
        /\ \A i \in 1..Len(tools_dict) : tools_dict[i].name \notin PASTE_DISABLED_TOOLS(ext)
        /\ tools_dict = SelectSeq(FullList, LAMBDA d : d.name \notin PASTE_DISABLED_TOOLS(ext))

\* an LLM call in paste mode for which a tool was dropped and two were kept
C19_Witness ==
    /\ mode = "paste" /\ pc = "llm" /\ llm_calls = 1
    /\ Names(FullList) = <<"create_event", "list_events", "get_current_time">>
    /\ Names(tools_dict) = <<"list_events", "get_current_time">>

\* C20: the denylist is applied in paste mode only: in copy mode the
\* descriptors given to the LLM calls are the whole merged list, in the
\* Notion and in the Calendar extension.
C20_CopyListUnfiltered ==
    mode = "copy" /\ pc = "llm" => tools_dict = FullList

\* ------------------------------------------ claims about concurrent tasks

\* the acknowledgments with status PENDING
PendingAcks == {"CopyResponse PENDING", "PasteResponse PENDING"}

\* the task of the request is scheduled and has run no step
OnlyScheduled(t) == t = [NoTask EXCEPT !.pc = "scheduled"]

\* C27: on_copy, and Calendar's on_paste, with a usable text return the
\* PENDING acknowledgment without waiting for the conversation loop: in the
\* step in which the handler returns, the task is only scheduled, and none
\* of its steps has run (no provider made, no LLM call begun, nothing sent).
C27_AckWithoutWaiting ==
    [][\A r \in Requests :
          (acks[r] = "none" /\ acks'[r] \in PendingAcks) =>
              /\ OnlyScheduled(tasks'[r])
              /\ objs' = objs /\ out' = out /\ blocked' = blocked]_vars

\* on_paste has returned PENDING for a request whose task has not started,
\* while the task of the other request is executing tools
C27_Witness ==
    \E r, q \in Requests :
        /\ acks[r] = "PasteResponse PENDING" /\ OnlyScheduled(tasks[r])
        /\ acks[q] = "CopyResponse PENDING" /\ tasks[q].pc = "await_tool"

\* the last message of a task
LastMessage(t) == t.messages[Len(t.messages)]

\* C28: the steps of one conversation loop are sequential: never are two
\* LLM calls, two tool executions, or an LLM call and a tool execution of
\* one request in progress together, and an LLM call after a round with
\* tool-use blocks is in progress only when every tool of that round has
\* returned and its result is in the messages.
C28_LoopIsSequential ==
    \A r \in Requests :
        LET t == tasks[r]
        IN  /\ t.llm + t.running <= 1
            /\ t.llm = 1 =>
                  /\ t.calls = 0
                  /\ LastMessage(t).role = "user"
                  /\ Len(t.messages) > 1 =>
                        /\ LastMessage(t).kind = "tool_results"
                        /\ t.messages[Len(t.messages) - 1].role = "assistant"
                        /\ LastMessage(t).n = t.messages[Len(t.messages) - 1].n

\* the second LLM call of a request, after a round of two tool calls
C28_Witness ==
    \E r \in Requests :
        /\ tasks[r].pc = "in_llm" /\ tasks[r].llm = 1
        /\ tasks[r].messages = <<UserText(r), AssistantMsg(r, 2), ToolResults(r, 2)>>

\* the final notifications sent for the request
SentFor(r) == {i \in 1..Len(out) : out[i].request_id = r}

\* the tasks keep their state apart
TasksApart ==
    /\ \A r \in Requests :
          /\ Cardinality(SentFor(r)) <= 1
          /\ tasks[r].pc = "done" <=> Cardinality(SentFor(r)) = 1
          /\ \A i \in SentFor(r) : out[i].status \in {"READY", "ERROR"}
          /\ \A i \in 1..Len(tasks[r].messages) : tasks[r].messages[i].of = r
    /\ \A r, q \in Requests :
          (r # q /\ tasks[r].tp # 0) => tasks[r].tp # tasks[q].tp

\* a step that is not of r's task leaves r's provider as it was
OthersLeaveProvider ==
    \A r \in Requests :
        (tasks[r].tp # 0 /\ tasks'[r] = tasks[r]) => objs'[tasks[r].tp] = objs[tasks[r].tp]

\* C29: background tasks of different requests share no mutable state: each
\* has its own MCPToolProvider and message history, each request gets one
\* terminal notification with its own request_id (sent when its task ends),
\* the messages of a request hold nothing of the other, and a failure or a
\* cleanup in one task leaves the provider of the other unchanged.
C29_TasksShareNothing == []TasksApart /\ [][OthersLeaveProvider]_vars

\* one task has failed and closed its provider while the provider of the
\* other, which is executing tools, is initialized with its Server ready
C29_Witness ==
    \E r, q \in Requests :
        /\ tasks[r].pc = "done" /\ tasks[r].status = "ERROR"
        /\ objs[tasks[r].tp] = [initialized |-> FALSE, server |-> "closed"]
        /\ out = <<[request_id |-> r, status |-> "ERROR"]>>
        /\ tasks[q].pc = "await_tool"
        /\ objs[tasks[q].tp] = [initialized |-> TRUE, server |-> "ready"]

\* the request has something for the event loop to run: a handler not yet
\* called, a task scheduled, or a task suspended in an await
HasWork(q) ==
    \/ tasks[q].pc = "none" /\ acks[q] = "none"
    \/ tasks[q].pc \notin {"none", "in_llm", "done"}

\* C30: the LLM call is a suspension point: while the LLM call of one
\* request is outstanding, the handler or the background task of the other
\* request can take its next step.
C30_LLMCallSuspends ==
    \A r, q \in Requests :
        (r # q /\ tasks[r].llm = 1 /\ HasWork(q)) => ENABLED RequestStep(q)

\* ------------------------------------ claims about the notifications sent

\* the lines of the progress notification for the tool-use blocks of the
\* last response
RequestedLines == CallNames(ToolCalls(contents))

\* C31: for every response with tool-use blocks, a PENDING progress
\* notification listing the requested tools, one line per block in order,
\* has been sent before any of these tools is executed, in both extensions:
\* when execute_all_tools is about to run on such a response, the last
\* notification sent is that one.
C31_ProgressBeforeTools ==
    (pc = "exec" /\ ToolCalls(contents) # <<>>) =>
        /\ notifs # <<>>
        /\ notifs[Len(notifs)].status = "PENDING"
        /\ Len(notifs[Len(notifs)].content) = 1 + Len(RequestedLines)
        /\ \A i \in 1..Len(RequestedLines) :
              notifs[Len(notifs)].content[i + 1] = RequestedLines[i]

\* ------------------------------------- claims about the message history

\* the call ids of the tool-use blocks of an assistant message
AskedIds(m) == [i \in 1..Len(ToolCalls(m.content)) |-> ToolCalls(m.content)[i].id]

\* the call ids a message of tool results answers
AnsweredIds(m) == [i \in 1..Len(m.content) |-> m.content[i].tool_use_id]

\* m holds tool results only
IsResultsMessage(m) ==
    m.role = "user" /\ \A i \in 1..Len(m.content) : m.content[i].type = "tool_result"

\* the history starts with the user's request, alternates user and
\* assistant, and every later user message answers the tool-use blocks of
\* the assistant message before it, id by id
WellFormed(ms) ==
    /\ ms[1].role = "user" /\ ~IsResultsMessage(ms[1])
    /\ \A i \in 1..Len(ms) : ms[i].role = (IF i % 2 = 1 THEN "user" ELSE "assistant")
    /\ \A i \in 2..Len(ms) :
          i % 2 = 1 =>
              /\ IsResultsMessage(ms[i])
              /\ ms[i].content # <<>>
              /\ AnsweredIds(ms[i]) = AskedIds(ms[i - 1])

\* the history at the call of the LLM, and at any time once it exists
HistoryWellFormed ==
    /\ pc = "llm" => Len(messages) = 2 * (llm_calls + 1) - 1
    /\ messages # <<>> => WellFormed(messages)

\* a step leaves the messages it finds where they are
HistoryOnlyGrows ==
    /\ Len(messages') >= Len(messages)
    /\ SubSeq(messages', 1, Len(messages)) = messages

\* C35: the message history given to the LLM is well formed at every call:
\* it starts with one user message, never shrinks or is reordered,
\* alternates user and assistant, has length 2k - 1 at the k-th call, and
\* every message of tool results directly follows the assistant message it
\* answers, with the same call ids in the same order.
C35_HistoryWellFormed == []HistoryWellFormed /\ [][HistoryOnlyGrows]_vars

\* the third call of the LLM, after a round of two tool calls and a round
\* of one
C35_Witness ==
    /\ pc = "llm" /\ llm_calls = 2 /\ Len(messages) = 5
    /\ AskedIds(messages[2]) = <<"tu1", "tu2">>
    /\ AnsweredIds(messages[3]) = <<"tu1", "tu2">>
    /\ AskedIds(messages[4]) = <<"tu1">>

\* the result shows that the tool was run: anything but the "No tool found"
\* answer and the placeholder of a call that raised
WasRun(res) == res.kind \notin {"not_found", "nothing"}

\* C36: in paste mode no tool named in PASTE_DISABLED_TOOLS is executed
\* during the loop, whatever tool-use blocks the LLM returns, a block naming
\* a tool that was filtered out of the descriptor list included.
C36_PasteNeverRunsDisabled ==
    (mode = "paste" /\ last.op = "MCPToolProvider.execute_all_tools") =>
        \A i \in 1..Len(last.tools) :
            last.tools[i].content.tool \in PASTE_DISABLED_TOOLS(ext) =>
                ~WasRun(last.tools[i].content)

\* C37: for any sequence of initialize and cleanup calls on one provider
\* (initialize on an initialized provider included), after a cleanup every
\* Server that an initialize call initialized has had its cleanup invoked,
\* and at no time has a ready Server left servers without being closed.
C37_NoServerDropped ==
    /\ last.op = "MCPToolProvider.cleanup" =>
          \A i \in 1..Len(heap) : heap[i].init_result = "ok" => heap[i].cleanups >= 1
    /\ \A i \in registered \ Range(prov.servers) : heap[i].cleanups >= 1

\* the provider of the task has been cleaned up
ProviderCleaned ==
    /\ ~prov.initialized /\ prov.servers = <<>>
    /\ \A i \in registered : heap[i].cleanups >= 1

\* C38: the terminal notification is sent only after the provider has been
\* cleaned up (the async-with has been left): when the READY or ERROR
\* notification has been sent, no Server session of the request is open.
C38_SentAfterRelease ==
    TerminalSends # {} =>
        /\ ProviderCleaned
        /\ \A i \in 1..Len(heap) : heap[i].session_context # "open"

\* the progress notifications sent
ProgressSends == {i \in 1..Len(notifs) : notifs[i].status = "PENDING"}

\* C39: a PENDING progress notification is sent only for a round whose
\* response holds at least one tool-use block (so it lists at least one
\* tool), none in the final round: a run that ends READY after N tool rounds
\* has sent exactly N progress notifications before its terminal one.
C39_ProgressOnlyForToolRounds ==
    /\ \A i \in ProgressSends : Len(notifs[i].content) > 1
    /\ (pc = "done" /\ final_notification.status = "READY") =>
          Cardinality(ProgressSends) = tool_rounds

\* C40: Server.execute_tool on a ready Server ends in one of two ways: it
\* returns the result of a successful remote call, or it raises the error
\* of the last failed attempt; it never returns without at least one
\* attempt, whatever the value of retries (retries <= 0 included).
C40_ExecuteToolAttempts ==
    (/\ last.op = "Server.execute_tool"
     /\ LastServer.init_result = "ok" /\ LastServer.cleanups = 0) =>
        /\ last.remote_calls >= 1
        /\ \/ last.raised = "none" /\ last.returned = "result"
           \/ last.raised = "TransportError" /\ last.returned = "nothing"

\* C34: in Calendar's copy mode the READY notification has the detail
\* "Updated calendar" when at least one tool was called during the
\* conversation, and "Fetched data" when no tool was called in any round.
C34_ReadyDetailTellsToolUse ==
    (ext = "calendar" /\ mode = "copy" /\ final_notification.status = "READY") =>
        final_notification.detail =
            (IF tool_rounds >= 1 THEN "Updated calendar" ELSE "Fetched data")

\* the end state of the task: the terminal notification has been sent and
\* the provider has been cleaned up
TaskEnded ==
    /\ pc = "done"
    /\ Cardinality(TerminalSends) = 1
    /\ ~prov.initialized /\ prov.servers = <<>>
    /\ \A i \in registered : heap[i].cleanups >= 1

\* C32: when every external call returns (a result or an error) and the LLM
\* in the end returns a response without tool-use blocks, the task reaches
\* its end state: terminal notification sent, provider cleaned up.
C32_TaskEnds == <>TaskEnded

\* C32, reached: a task that ended after the most rounds the LLM asks for
C32_Witness == TaskEnded /\ tool_rounds = MaxRounds /\ llm_calls = MaxRounds + 1

\* ------------------------------------------- claims about Tool.from_function

\* the names of a sequence of parameters or properties
NamesOf(s) == [i \in 1..Len(s) |-> s[i].name]

\* a declared parameter has a type that the map does not hold
HasUnmappedParam(f) ==
    \E i \in 1..Len(f.params) : f.params[i].type \notin MappedTypes \cup {"unannotated"}

\* C33: the schema that Tool.from_function builds has exactly one property
\* per declared parameter of the function, and none for anything else (the
\* return annotation), each typed by the map; a parameter whose type is not
\* in the map makes the construction fail, and nothing else does.
C33_SchemaFromSignature ==
    made # <<>> =>
        IF HasUnmappedParam(func)
        THEN made[1].raised # "none"
        ELSE /\ made[1].raised = "none"
             /\ NamesOf(made[1].properties) = NamesOf(func.params)
             /\ \A i \in 1..Len(func.params) :
                   func.params[i].type \in MappedTypes =>
                       made[1].properties[i].type = PYTHON_TO_JSON_TYPE_MAP(func.params[i].type)


====
